---- MODULE Spec2Model ----
(***************************************************************************)
(* A model of the greek-chess rules engine: Board, Piece, MoveGenerator,   *)
(* MoveValidator, MoveHistory and the GameState orchestrator.              *)
(*                                                                         *)
(* A square holds a piece record or NoPiece (the code's null).  A throw    *)
(* of the code (Position's constructor rejecting an out-of-board           *)
(* coordinate) is modelled as the outcome "THROW" of the operation that    *)
(* raises it; the caller's state is left as the code leaves it at the      *)
(* point of the throw.                                                     *)
(*                                                                         *)
(* Left out: the timestamp of a move record, the rendering code and the    *)
(* page (main.ts), which calls the operations below and catches nothing.   *)
(* A promotion always yields a queen, as in makeMove.                      *)
(***************************************************************************)
EXTENDS Integers, Sequences, FiniteSets, TLC

VARIABLES board, history, currentTurn, status, lastResult

vars == <<board, history, currentTurn, status, lastResult>>

game == <<board, history, currentTurn, status>>

----------------------------------------------------------------------------
(* constants.ts, types.ts *)

BOARD_SIZE == 8

Rows == 0 .. (BOARD_SIZE - 1)

WHITE == "WHITE"
BLACK == "BLACK"

PAWN == "PAWN"
ROOK == "ROOK"
KNIGHT == "KNIGHT"
BISHOP == "BISHOP"
QUEEN == "QUEEN"
KING == "KING"

ACTIVE == "ACTIVE"
CHECK == "CHECK"
CHECKMATE == "CHECKMATE"
STALEMATE == "STALEMATE"
DRAW == "DRAW"

GameStatus == {ACTIVE, CHECK, CHECKMATE, STALEMATE, DRAW}

Abs(x) == IF x < 0 THEN -x ELSE x

\* new Position(row, col); the constructor throws outside the board
Pos(r, c) == [row |-> r, col |-> c]

\* the code's null Position (findPiece finding nothing, no last move)
NoPos == [row |-> -1, col |-> -1]

\* new Piece(type, color, hasMoved)
Piece(t, c, m) == [type |-> t, color |-> c, hasMoved |-> m]

\* the code's null Square
NoPiece == [type |-> "NONE", color |-> "NONE", hasMoved |-> FALSE]

DIRECTIONS_ROOK ==
    << [row |-> -1, col |-> 0], [row |-> 1, col |-> 0],
       [row |-> 0, col |-> -1], [row |-> 0, col |-> 1] >>

DIRECTIONS_BISHOP ==
    << [row |-> -1, col |-> -1], [row |-> -1, col |-> 1],
       [row |-> 1, col |-> -1], [row |-> 1, col |-> 1] >>

DIRECTIONS_KNIGHT ==
    << [row |-> -2, col |-> -1], [row |-> -2, col |-> 1],
       [row |-> -1, col |-> -2], [row |-> -1, col |-> 2],
       [row |-> 1, col |-> -2], [row |-> 1, col |-> 2],
       [row |-> 2, col |-> -1], [row |-> 2, col |-> 1] >>

DIRECTIONS_KING ==
    << [row |-> -1, col |-> -1], [row |-> -1, col |-> 0], [row |-> -1, col |-> 1],
       [row |-> 0, col |-> -1], [row |-> 0, col |-> 1],
       [row |-> 1, col |-> -1], [row |-> 1, col |-> 0], [row |-> 1, col |-> 1] >>

BackRankTypes == << ROOK, KNIGHT, BISHOP, QUEEN, KING, BISHOP, KNIGHT, ROOK >>

\* INITIAL_BOARD_SETUP placed on an empty board, every piece unmoved
InitialBoard ==
    [r \in Rows |-> [c \in Rows |->
        CASE r = 0 -> Piece(BackRankTypes[c + 1], BLACK, FALSE)
          [] r = 1 -> Piece(PAWN, BLACK, FALSE)
          [] r = 6 -> Piece(PAWN, WHITE, FALSE)
          [] r = 7 -> Piece(BackRankTypes[c + 1], WHITE, FALSE)
          [] OTHER -> NoPiece]]

----------------------------------------------------------------------------
(* utils/boardHelpers.ts *)

isValidPosition(row, col) ==
    row >= 0 /\ row < BOARD_SIZE /\ col >= 0 /\ col < BOARD_SIZE

getOppositeColor(color) == IF color = WHITE THEN BLACK ELSE WHITE

getPawnDirection(color) == IF color = WHITE THEN -1 ELSE 1

getPawnStartRow(color) == IF color = WHITE THEN 6 ELSE 1

getPawnPromotionRow(color) == IF color = WHITE THEN 0 ELSE 7

getBackRank(color) == IF color = WHITE THEN 7 ELSE 0

----------------------------------------------------------------------------
(* Board *)

getPiece(b, pos) == b[pos.row][pos.col]

setPiece(b, pos, piece) == [b EXCEPT ![pos.row][pos.col] = piece]

\* marks the piece as moved, writes it on `to`, then clears `from`
\* a variant that does not mark the piece as moved
movePieceKeepsFlag(b, from, to) ==
    [b EXCEPT ![to.row][to.col] = b[from.row][from.col],
              ![from.row][from.col] = NoPiece]

movePiece(b, from, to) ==
    LET piece == getPiece(b, from)
    IN  setPiece(setPiece(b, to, [piece EXCEPT !.hasMoved = TRUE]), from, NoPiece)

isEmpty(b, pos) == getPiece(b, pos) = NoPiece

\* the squares in the order of the row-major scans of findPiece and
\* getPiecesOfColor
ScanOrder == [k \in 1 .. (BOARD_SIZE * BOARD_SIZE) |->
                 Pos((k - 1) \div BOARD_SIZE, (k - 1) % BOARD_SIZE)]

\* the first square of the scan that holds such a piece, or NoPos
RECURSIVE findPieceFrom(_, _, _, _)
findPieceFrom(b, type, color, k) ==
    IF k > Len(ScanOrder) THEN NoPos
    ELSE IF getPiece(b, ScanOrder[k]).type = type /\ getPiece(b, ScanOrder[k]).color = color
    THEN ScanOrder[k]
    ELSE findPieceFrom(b, type, color, k + 1)

findPiece(b, type, color) == findPieceFrom(b, type, color, 1)

getPiecesOfColor(b, color) ==
    LET Mine(pos) == getPiece(b, pos).color = color
    IN  SelectSeq(ScanOrder, Mine)

----------------------------------------------------------------------------
(* MoveGenerator: pseudo-legal destinations, in the order the code pushes  *)
(* them                                                                    *)

SeqContains(s, x) == \E i \in 1 .. Len(s) : s[i] = x

\* generatePawnMoves line 56 builds Position(row + direction, col) before
\* any test: it throws for a pawn standing on its farthest row
generatePawnMovesThrows(position, color) ==
    ~isValidPosition(position.row + getPawnDirection(color), position.col)

generatePawnMoves(b, position, color) ==
    LET direction == getPawnDirection(color)
        startRow == getPawnStartRow(color)
        forwardOne == Pos(position.row + direction, position.col)
        forwardTwo == Pos(position.row + direction * 2, position.col)
        forward ==
            IF isValidPosition(forwardOne.row, forwardOne.col) /\ isEmpty(b, forwardOne)
            THEN <<forwardOne>> \o
                 (IF position.row = startRow
                     /\ isValidPosition(forwardTwo.row, forwardTwo.col)
                     /\ isEmpty(b, forwardTwo)
                  THEN <<forwardTwo>> ELSE <<>>)
            ELSE <<>>
        Capture(dcol) ==
            LET targetRow == position.row + direction
                targetCol == position.col + dcol
            IN  IF isValidPosition(targetRow, targetCol)
                   /\ b[targetRow][targetCol] # NoPiece
                   /\ b[targetRow][targetCol].color # color
                THEN << Pos(targetRow, targetCol) >> ELSE <<>>
    IN  forward \o Capture(-1) \o Capture(1)

\* a variant of one direction that takes the first occupied square whatever
\* the color of its piece
RECURSIVE SlideFromTakesOwn(_, _, _, _, _, _)
SlideFromTakesOwn(b, r, c, dr, dc, color) ==
    IF ~isValidPosition(r, c) THEN <<>>
    ELSE IF b[r][c] = NoPiece
    THEN << Pos(r, c) >> \o SlideFromTakesOwn(b, r + dr, c + dc, dr, dc, color)
    ELSE << Pos(r, c) >>

\* one direction of generateSlidingMoves, from the square (r, c) on
RECURSIVE SlideFrom(_, _, _, _, _, _)
SlideFrom(b, r, c, dr, dc, color) ==
    IF ~isValidPosition(r, c) THEN <<>>
    ELSE LET targetPiece == b[r][c]
         IN  IF targetPiece = NoPiece
             THEN << Pos(r, c) >> \o SlideFrom(b, r + dr, c + dc, dr, dc, color)
             ELSE IF targetPiece.color # color THEN << Pos(r, c) >>
             ELSE <<>>

RECURSIVE SlidingFromDir(_, _, _, _, _)
SlidingFromDir(b, position, color, directions, i) ==
    IF i > Len(directions) THEN <<>>
    ELSE SlideFrom(b, position.row + directions[i].row, position.col + directions[i].col,
                   directions[i].row, directions[i].col, color)
         \o SlidingFromDir(b, position, color, directions, i + 1)

generateSlidingMoves(b, position, color, directions) ==
    SlidingFromDir(b, position, color, directions, 1)

generateRookMoves(b, position, color) ==
    generateSlidingMoves(b, position, color, DIRECTIONS_ROOK)

generateBishopMoves(b, position, color) ==
    generateSlidingMoves(b, position, color, DIRECTIONS_BISHOP)

generateQueenMoves(b, position, color) ==
    generateSlidingMoves(b, position, color, DIRECTIONS_ROOK)
    \o generateSlidingMoves(b, position, color, DIRECTIONS_BISHOP)

\* the loop shared by generateKnightMoves and generateKingMoves
RECURSIVE StepFromDir(_, _, _, _, _)
StepFromDir(b, position, color, directions, i) ==
    IF i > Len(directions) THEN <<>>
    ELSE LET targetRow == position.row + directions[i].row
             targetCol == position.col + directions[i].col
         IN  (IF isValidPosition(targetRow, targetCol)
                 /\ (b[targetRow][targetCol] = NoPiece
                     \/ b[targetRow][targetCol].color # color)
              THEN << Pos(targetRow, targetCol) >> ELSE <<>>)
             \o StepFromDir(b, position, color, directions, i + 1)

generateKnightMoves(b, position, color) ==
    StepFromDir(b, position, color, DIRECTIONS_KNIGHT, 1)

\* a variant that also offers the king the square two columns to its right
\* when the two squares on that side are empty
generateKingMovesWithCastling(b, position, color) ==
    StepFromDir(b, position, color, DIRECTIONS_KING, 1)
    \o (IF isValidPosition(position.row, position.col + 2)
           /\ b[position.row][position.col + 1] = NoPiece
           /\ b[position.row][position.col + 2] = NoPiece
        THEN << Pos(position.row, position.col + 2) >> ELSE <<>>)

generateKingMoves(b, position, color) ==
    StepFromDir(b, position, color, DIRECTIONS_KING, 1)

generateMoves(b, position, piece) ==
    CASE piece.type = PAWN -> generatePawnMoves(b, position, piece.color)
      [] piece.type = ROOK -> generateRookMoves(b, position, piece.color)
      [] piece.type = KNIGHT -> generateKnightMoves(b, position, piece.color)
      [] piece.type = BISHOP -> generateBishopMoves(b, position, piece.color)
      [] piece.type = QUEEN -> generateQueenMoves(b, position, piece.color)
      [] piece.type = KING -> generateKingMoves(b, position, piece.color)
      [] OTHER -> <<>>

canAttack(b, from, to, piece) == SeqContains(generateMoves(b, from, piece), to)

isPseudoLegal(b, from, to, piece) == SeqContains(generateMoves(b, from, piece), to)

----------------------------------------------------------------------------
(* MoveValidator.  `b` is the board the validator is bound to (the live    *)
(* board of the GameState that owns it) or, for isKingInCheck, the board   *)
(* handed in.  lastMove is NoMove where the code passes undefined.         *)

NoMove == [from |-> NoPos, to |-> NoPos, piece |-> NoPiece, capturedPiece |-> NoPiece,
           moveType |-> "NONE", notation |-> <<>>]

\* the loop of isKingInCheck over the opponent's pieces
anyCanAttack(b, opponentPieces, kingPos) ==
    \E i \in 1 .. Len(opponentPieces) :
        canAttack(b, opponentPieces[i], kingPos, getPiece(b, opponentPieces[i]))

isKingInCheckAt(b, kingPos, opponentColor) ==
    IF kingPos = NoPos THEN FALSE
    ELSE anyCanAttack(b, getPiecesOfColor(b, opponentColor), kingPos)

\* a variant that finds the king on the board handed in and looks for its
\* attackers on the live board
isKingInCheckOnLiveBoard(b, color) ==
    isKingInCheckAt(board, findPiece(b, KING, color), IF color = WHITE THEN BLACK ELSE WHITE)

isKingInCheck(b, color) ==
    isKingInCheckAt(b, findPiece(b, KING, color), IF color = WHITE THEN BLACK ELSE WHITE)

isCastlingMove(from, to, color) ==
    LET backRank == getBackRank(color)
    IN  /\ from.row = backRank
        /\ from.col = 4
        /\ to.row = backRank
        /\ (to.col = 6 \/ to.col = 2)

\* a variant that also wants the queenside b-file square unattacked
canCastleGuardsBFile(b, color, side) ==
    LET backRank == getBackRank(color)
        kingPos == Pos(backRank, 4)
        king == getPiece(b, kingPos)
        rookCol == IF side = "kingside" THEN 7 ELSE 0
        rook == getPiece(b, Pos(backRank, rookCol))
        squaresBetween == IF side = "kingside" THEN <<5, 6>> ELSE <<1, 2, 3>>
    IN  /\ ~(king = NoPiece \/ king.type # KING \/ king.hasMoved)
        /\ ~(rook = NoPiece \/ rook.type # ROOK \/ rook.hasMoved)
        /\ \A i \in 1 .. Len(squaresBetween) : isEmpty(b, Pos(backRank, squaresBetween[i]))
        /\ ~isKingInCheck(b, color)
        /\ \A i \in 1 .. Len(squaresBetween) :
              ~isKingInCheck(movePiece(b, kingPos, Pos(backRank, squaresBetween[i])), color)

canCastle(b, color, side) ==
    LET backRank == getBackRank(color)
        kingPos == Pos(backRank, 4)
        king == getPiece(b, kingPos)
        rookCol == IF side = "kingside" THEN 7 ELSE 0
        rook == getPiece(b, Pos(backRank, rookCol))
        squaresBetween == IF side = "kingside" THEN <<5, 6>> ELSE <<1, 2, 3>>
        squaresKingPasses == IF side = "kingside" THEN <<5, 6>> ELSE <<3, 2>>
    IN  /\ ~(king = NoPiece \/ king.type # KING \/ king.hasMoved)
        /\ ~(rook = NoPiece \/ rook.type # ROOK \/ rook.hasMoved)
        /\ \A i \in 1 .. Len(squaresBetween) : isEmpty(b, Pos(backRank, squaresBetween[i]))
        /\ ~isKingInCheck(b, color)
        /\ \A i \in 1 .. Len(squaresKingPasses) :
              ~isKingInCheck(movePiece(b, kingPos, Pos(backRank, squaresKingPasses[i])), color)

canEnPassant(b, from, to, color, lastMove) ==
    /\ lastMove.piece.type = PAWN
    /\ Abs(lastMove.to.row - lastMove.from.row) = 2
    /\ from.row = (IF color = WHITE THEN 3 ELSE 4)
    /\ lastMove.to.row = from.row
    /\ Abs(lastMove.to.col - from.col) = 1
    /\ to.row = from.row + getPawnDirection(color)
    /\ to.col = lastMove.to.col
    /\ ~isKingInCheck(setPiece(movePiece(b, from, to), lastMove.to, NoPiece), color)

isEnPassantMove(b, from, to, color, lastMove) ==
    LET direction == getPawnDirection(color)
        isMovingDiagonally == to.row = from.row + direction /\ Abs(to.col - from.col) = 1
    IN  /\ isMovingDiagonally
        /\ isEmpty(b, to)
        /\ lastMove.piece.type = PAWN
        /\ Abs(lastMove.to.row - lastMove.from.row) = 2
        /\ lastMove.to.row = from.row
        /\ Abs(lastMove.to.col - from.col) = 1

\* a variant that accepts every pseudo-legal move without looking at the king
isLegalMoveIgnoringCheck(b, from, to, piece, lastMove) ==
    IF ~isPseudoLegal(b, from, to, piece)
    THEN IF piece.type = KING /\ ~piece.hasMoved /\ isCastlingMove(from, to, piece.color)
         THEN canCastle(b, piece.color, IF to.col > from.col THEN "kingside" ELSE "queenside")
         ELSE IF piece.type = PAWN /\ lastMove # NoMove
                 /\ isEnPassantMove(b, from, to, piece.color, lastMove)
         THEN canEnPassant(b, from, to, piece.color, lastMove)
         ELSE FALSE
    ELSE TRUE

\* a variant that lets a pawn capture en passant any enemy pawn beside it,
\* whatever the last move was
isLegalMoveStaleEnPassant(b, from, to, piece, lastMove) ==
    IF ~isPseudoLegal(b, from, to, piece)
    THEN IF piece.type = KING /\ ~piece.hasMoved /\ isCastlingMove(from, to, piece.color)
         THEN canCastle(b, piece.color, IF to.col > from.col THEN "kingside" ELSE "queenside")
         ELSE IF /\ piece.type = PAWN /\ lastMove # NoMove
                 /\ to.row = from.row + getPawnDirection(piece.color)
                 /\ Abs(to.col - from.col) = 1
                 /\ isEmpty(b, to)
                 /\ getPiece(b, Pos(from.row, to.col)).type = PAWN
                 /\ getPiece(b, Pos(from.row, to.col)).color # piece.color
         THEN ~isKingInCheck(setPiece(movePiece(b, from, to), Pos(from.row, to.col), NoPiece),
                             piece.color)
         ELSE FALSE
    ELSE ~isKingInCheck(movePiece(b, from, to), piece.color)

isLegalMove(b, from, to, piece, lastMove) ==
    IF ~isPseudoLegal(b, from, to, piece)
    THEN IF piece.type = KING /\ ~piece.hasMoved /\ isCastlingMove(from, to, piece.color)
         THEN canCastle(b, piece.color, IF to.col > from.col THEN "kingside" ELSE "queenside")
         ELSE IF piece.type = PAWN /\ lastMove # NoMove
                 /\ isEnPassantMove(b, from, to, piece.color, lastMove)
         THEN canEnPassant(b, from, to, piece.color, lastMove)
         ELSE FALSE
    ELSE ~isKingInCheck(movePiece(b, from, to), piece.color)

\* getLegalMoves lines 104-109 build Position(row + direction, col - 1) and
\* Position(row + direction, col + 1) for every pawn once a last move
\* exists, before testing them: the constructor throws for a pawn on the
\* a-file or the h-file
getLegalMovesThrows(position, piece, lastMove) ==
    /\ piece.type = PAWN
    /\ \/ generatePawnMovesThrows(position, piece.color)
       \/ /\ lastMove # NoMove
          /\ \/ ~isValidPosition(position.row + getPawnDirection(piece.color), position.col - 1)
             \/ ~isValidPosition(position.row + getPawnDirection(piece.color), position.col + 1)

\* a variant that returns the pseudo-legal moves without filtering them
getLegalMovesUnfiltered(b, position, piece, lastMove) ==
    generateMoves(b, position, piece)

\* the list getLegalMoves returns when it does not throw
getLegalMoves(b, position, piece, lastMove) ==
    LET pseudoLegalMoves == generateMoves(b, position, piece)
        Legal(move) == isLegalMove(b, position, move, piece, lastMove)
        backRank == getBackRank(piece.color)
        castling ==
            IF piece.type = KING /\ ~piece.hasMoved
            THEN (IF canCastle(b, piece.color, "kingside") THEN << Pos(backRank, 6) >> ELSE <<>>)
                 \o (IF canCastle(b, piece.color, "queenside") THEN << Pos(backRank, 2) >> ELSE <<>>)
            ELSE <<>>
        direction == getPawnDirection(piece.color)
        EnPassantTo(square) ==
            IF canEnPassant(b, position, square, piece.color, lastMove)
            THEN <<square>> ELSE <<>>
        enPassant ==
            IF piece.type = PAWN /\ lastMove # NoMove
            THEN EnPassantTo(Pos(position.row + direction, position.col - 1))
                 \o EnPassantTo(Pos(position.row + direction, position.col + 1))
            ELSE <<>>
    IN  SelectSeq(pseudoLegalMoves, Legal) \o castling \o enPassant

\* hasAnyLegalMoves: "TRUE" or "FALSE" as returned, "THROW" when the call
\* of getLegalMoves for some piece throws before a piece with a legal move
\* has been found
RECURSIVE hasAnyLegalMovesFrom(_, _, _, _, _)
hasAnyLegalMovesFrom(b, color, lastMove, pieces, i) ==
    IF i > Len(pieces) THEN "FALSE"
    ELSE LET position == pieces[i]
             piece == getPiece(b, position)
         IN  IF getLegalMovesThrows(position, piece, lastMove) THEN "THROW"
             ELSE IF Len(getLegalMoves(b, position, piece, lastMove)) > 0 THEN "TRUE"
             ELSE hasAnyLegalMovesFrom(b, color, lastMove, pieces, i + 1)

hasAnyLegalMoves(b, color, lastMove) ==
    hasAnyLegalMovesFrom(b, color, lastMove, getPiecesOfColor(b, color), 1)

\* !x over the three outcomes of x
Negated(x) == CASE x = "THROW" -> "THROW" [] x = "TRUE" -> "FALSE" [] OTHER -> "TRUE"

\* isKingInCheck && !hasAnyLegalMoves; && short-circuits
isCheckmate(b, color, lastMove) ==
    IF ~isKingInCheck(b, color) THEN "FALSE"
    ELSE Negated(hasAnyLegalMoves(b, color, lastMove))

\* !isKingInCheck && !hasAnyLegalMoves
isStalemate(b, color, lastMove) ==
    IF isKingInCheck(b, color) THEN "FALSE"
    ELSE Negated(hasAnyLegalMoves(b, color, lastMove))

----------------------------------------------------------------------------
(* The live board after a query of the validator.  A query that tries a   *)
(* move calls board.clone(), which copies every piece, and moves on the   *)
(* clone; liveAfter... gives the board the validator was built on as it   *)
(* is when the query is over.                                             *)

\* a variant in which the clone holds the pieces of the board itself, so
\* that the tried move marks the live piece as moved
liveAfterTrySharedPieces(b, from, to) ==
    setPiece(b, from, [getPiece(b, from) EXCEPT !.hasMoved = TRUE])

\* const clonedBoard = this.board.clone(); clonedBoard.movePiece(from, to)
liveAfterTry(b, from, to) == b

\* canCastle tries the squares the king passes, one clone each, and stops
\* at the first on which the king is in check
liveAfterCanCastle(b, color, side) ==
    LET backRank == getBackRank(color)
        kingPos == Pos(backRank, 4)
        king == getPiece(b, kingPos)
        rook == getPiece(b, Pos(backRank, IF side = "kingside" THEN 7 ELSE 0))
        squaresBetween == IF side = "kingside" THEN <<5, 6>> ELSE <<1, 2, 3>>
        squaresKingPasses == IF side = "kingside" THEN <<5, 6>> ELSE <<3, 2>>
        first == Pos(backRank, squaresKingPasses[1])
        second == Pos(backRank, squaresKingPasses[2])
    IN  IF \/ king = NoPiece \/ king.type # KING \/ king.hasMoved
           \/ rook = NoPiece \/ rook.type # ROOK \/ rook.hasMoved
           \/ \E i \in 1 .. Len(squaresBetween) : ~isEmpty(b, Pos(backRank, squaresBetween[i]))
           \/ isKingInCheck(b, color)
        THEN b
        ELSE IF isKingInCheck(movePiece(b, kingPos, first), color)
        THEN liveAfterTry(b, kingPos, first)
        ELSE liveAfterTry(liveAfterTry(b, kingPos, first), kingPos, second)

\* canEnPassant tries the capture once its tests of the last move pass
liveAfterCanEnPassant(b, from, to, color, lastMove) ==
    IF /\ lastMove.piece.type = PAWN
       /\ Abs(lastMove.to.row - lastMove.from.row) = 2
       /\ from.row = (IF color = WHITE THEN 3 ELSE 4)
       /\ lastMove.to.row = from.row
       /\ Abs(lastMove.to.col - from.col) = 1
       /\ to.row = from.row + getPawnDirection(color)
       /\ to.col = lastMove.to.col
    THEN liveAfterTry(b, from, to)
    ELSE b

liveAfterIsLegalMove(b, from, to, piece, lastMove) ==
    IF ~isPseudoLegal(b, from, to, piece)
    THEN IF piece.type = KING /\ ~piece.hasMoved /\ isCastlingMove(from, to, piece.color)
         THEN liveAfterCanCastle(b, piece.color,
                                 IF to.col > from.col THEN "kingside" ELSE "queenside")
         ELSE IF piece.type = PAWN /\ lastMove # NoMove
                 /\ isEnPassantMove(b, from, to, piece.color, lastMove)
         THEN liveAfterCanEnPassant(b, from, to, piece.color, lastMove)
         ELSE b
    ELSE liveAfterTry(b, from, to)

\* the loop of getLegalMoves over the pseudo-legal moves, from the i-th on
RECURSIVE liveAfterLegalLoop(_, _, _, _, _, _)
liveAfterLegalLoop(b, position, piece, lastMove, pseudoLegalMoves, i) ==
    IF i > Len(pseudoLegalMoves) THEN b
    ELSE LET after == liveAfterIsLegalMove(b, position, pseudoLegalMoves[i], piece, lastMove)
         IN  IF after = b
             THEN liveAfterLegalLoop(b, position, piece, lastMove, pseudoLegalMoves, i + 1)
             ELSE liveAfterLegalLoop(after, position, piece, lastMove, pseudoLegalMoves, i + 1)

\* getLegalMoves, up to its return or to the point where it throws
liveAfterGetLegalMoves(b, position, piece, lastMove) ==
    LET direction == getPawnDirection(piece.color)
        afterLoop == liveAfterLegalLoop(b, position, piece, lastMove,
                                        generateMoves(b, position, piece), 1)
    IN  IF piece.type = PAWN /\ generatePawnMovesThrows(position, piece.color) THEN b
        ELSE IF piece.type = KING /\ ~piece.hasMoved
        THEN liveAfterCanCastle(liveAfterCanCastle(afterLoop, piece.color, "kingside"),
                                piece.color, "queenside")
        ELSE IF piece.type = PAWN /\ lastMove # NoMove
                /\ ~getLegalMovesThrows(position, piece, lastMove)
        THEN liveAfterCanEnPassant(
                 liveAfterCanEnPassant(afterLoop, position,
                                       Pos(position.row + direction, position.col - 1),
                                       piece.color, lastMove),
                 position, Pos(position.row + direction, position.col + 1),
                 piece.color, lastMove)
        ELSE afterLoop

\* the scan of hasAnyLegalMoves, from the i-th piece on: it ends at the
\* first piece for which getLegalMoves throws or returns a move
RECURSIVE liveAfterHasAnyLegalMovesFrom(_, _, _, _, _)
liveAfterHasAnyLegalMovesFrom(b, color, lastMove, pieces, i) ==
    IF i > Len(pieces) THEN b
    ELSE LET position == pieces[i]
             piece == getPiece(b, position)
             after == liveAfterGetLegalMoves(b, position, piece, lastMove)
         IN  IF getLegalMovesThrows(position, piece, lastMove) THEN after
             ELSE IF Len(getLegalMoves(b, position, piece, lastMove)) > 0 THEN after
             ELSE liveAfterHasAnyLegalMovesFrom(after, color, lastMove, pieces, i + 1)

liveAfterHasAnyLegalMoves(b, color, lastMove) ==
    liveAfterHasAnyLegalMovesFrom(b, color, lastMove, getPiecesOfColor(b, color), 1)

----------------------------------------------------------------------------
(* Position.toAlgebraic and GameState.getMoveNotation.  A notation is the  *)
(* sequence of the characters of the code's string.                       *)

FILES == << "a", "b", "c", "d", "e", "f", "g", "h" >>

RankDigits == << "1", "2", "3", "4", "5", "6", "7", "8" >>

toAlgebraic(pos) == << FILES[pos.col + 1], RankDigits[8 - pos.row] >>

pieceLetters(type) ==
    CASE type = KING -> <<"K">> [] type = QUEEN -> <<"Q">> [] type = ROOK -> <<"R">>
      [] type = BISHOP -> <<"B">> [] type = KNIGHT -> <<"N">> [] OTHER -> <<>>

getMoveNotation(from, to, piece, moveType, capturedPiece) ==
    IF moveType = "CASTLE_KINGSIDE" THEN << "O", "-", "O" >>
    ELSE IF moveType = "CASTLE_QUEENSIDE" THEN << "O", "-", "O", "-", "O" >>
    ELSE (IF piece.type # PAWN THEN pieceLetters(piece.type) ELSE <<>>)
         \o (IF piece.type = PAWN /\ capturedPiece # NoPiece
             THEN << toAlgebraic(from)[1] >> ELSE <<>>)
         \o (IF capturedPiece # NoPiece \/ moveType = "EN_PASSANT" THEN <<"x">> ELSE <<>>)
         \o toAlgebraic(to)
         \o (IF moveType = "PROMOTION" THEN << "=", "Q" >> ELSE <<>>)

----------------------------------------------------------------------------
(* MoveHistory: a sequence of entries [move, boardBeforeMove] *)

getLastMove(h) == IF Len(h) = 0 THEN NoMove ELSE h[Len(h)].move

getMoveCount(h) == Len(h)

----------------------------------------------------------------------------
(* GameState *)

\* the status updateStatus stores, or "THROW" when it throws before
\* storing one (the stored status is then left as it was)
\* a variant that stores DRAW for a check that is not mate
statusAfterDrawOnCheck(mate, stale, inCheck) ==
    IF mate = "THROW" THEN "THROW"
    ELSE IF mate = "TRUE" THEN CHECKMATE
    ELSE IF stale = "THROW" THEN "THROW"
    ELSE IF stale = "TRUE" THEN STALEMATE
    ELSE IF inCheck THEN DRAW
    ELSE ACTIVE

statusAfter(mate, stale, inCheck) ==
    IF mate = "THROW" THEN "THROW"
    ELSE IF mate = "TRUE" THEN CHECKMATE
    ELSE IF stale = "THROW" THEN "THROW"
    ELSE IF stale = "TRUE" THEN STALEMATE
    ELSE IF inCheck THEN CHECK
    ELSE ACTIVE

updateStatus(b, turn, lastMove) ==
    statusAfter(isCheckmate(b, turn, lastMove), isStalemate(b, turn, lastMove),
                isKingInCheck(b, turn))

\* the live board after updateStatus: isCheckmate and isStalemate reach
\* hasAnyLegalMoves once between them (&& short-circuits), isKingInCheck
\* tries no move
liveAfterUpdateStatus(b, turn, lastMove) ==
    liveAfterHasAnyLegalMoves(b, turn, lastMove)

\* a variant that moves the king and leaves the rook at home
executeCastlingKingOnly(b, kingFrom, kingTo, color) ==
    movePiece(b, kingFrom, kingTo)

executeCastling(b, kingFrom, kingTo, color) ==
    LET backRank == getBackRank(color)
        isKingside == kingTo.col > kingFrom.col
        rookFromCol == IF isKingside THEN 7 ELSE 0
        rookToCol == IF isKingside THEN 5 ELSE 3
    IN  movePiece(movePiece(b, kingFrom, kingTo),
                  Pos(backRank, rookFromCol), Pos(backRank, rookToCol))

\* a variant that clears the destination instead of the square the enemy
\* pawn stands on
executeEnPassantClearsDestination(b, from, to, lastMove) ==
    setPiece(movePiece(b, from, to), to, NoPiece)

executeEnPassant(b, from, to, lastMove) ==
    setPiece(movePiece(b, from, to), lastMove.to, NoPiece)

\* a variant that moves the pawn and leaves it a pawn
executePromotionKeepsPawn(b, from, to) ==
    movePiece(b, from, to)

executePromotion(b, from, to) ==
    LET piece == getPiece(b, from)
    IN  IF piece = NoPiece THEN b
        ELSE setPiece(setPiece(b, from, NoPiece), to, Piece(QUEEN, piece.color, TRUE))

\* a variant that looks at the destination before it looks for a promotion
classifyMoveCaptureFirst(b, from, to, piece, lastMove) ==
    LET capturedPiece == getPiece(b, to)
    IN  IF piece.type = KING /\ Abs(to.col - from.col) = 2
        THEN (IF to.col > from.col THEN "CASTLE_KINGSIDE" ELSE "CASTLE_QUEENSIDE")
        ELSE IF capturedPiece # NoPiece THEN "CAPTURE"
        ELSE IF piece.type = PAWN /\ to.col # from.col /\ lastMove # NoMove
        THEN "EN_PASSANT"
        ELSE IF piece.type = PAWN /\ to.row = getPawnPromotionRow(piece.color)
        THEN "PROMOTION"
        ELSE "NORMAL"

\* the move type makeMove settles on (lines 70-96)
classifyMove(b, from, to, piece, lastMove) ==
    LET capturedPiece == getPiece(b, to)
    IN  IF piece.type = KING /\ Abs(to.col - from.col) = 2
        THEN (IF to.col > from.col THEN "CASTLE_KINGSIDE" ELSE "CASTLE_QUEENSIDE")
        ELSE IF piece.type = PAWN /\ to.col # from.col /\ capturedPiece = NoPiece
                /\ lastMove # NoMove
        THEN "EN_PASSANT"
        ELSE IF piece.type = PAWN /\ to.row = getPawnPromotionRow(piece.color)
        THEN "PROMOTION"
        ELSE IF capturedPiece # NoPiece THEN "CAPTURE" ELSE "NORMAL"

\* the board after the branch of makeMove that the move type selects
executeMove(b, from, to, piece, lastMove) ==
    LET moveType == classifyMove(b, from, to, piece, lastMove)
    IN  CASE moveType \in {"CASTLE_KINGSIDE", "CASTLE_QUEENSIDE"} ->
                executeCastling(b, from, to, piece.color)
          [] moveType = "EN_PASSANT" -> executeEnPassant(b, from, to, lastMove)
          [] moveType = "PROMOTION" -> executePromotion(b, from, to)
          [] OTHER -> movePiece(b, from, to)

\* the Move record of lines 99-107 (the timestamp is left out); `piece` is
\* cloned after the board mutation, so a relocated piece is recorded moved
moveRecord(b, from, to, piece, lastMove) ==
    LET moveType == classifyMove(b, from, to, piece, lastMove)
        capturedPiece == getPiece(b, to)
    IN  [from |-> from, to |-> to,
         piece |-> IF moveType = "PROMOTION" THEN piece
                   ELSE [piece EXCEPT !.hasMoved = TRUE],
         capturedPiece |-> capturedPiece,
         moveType |-> moveType,
         notation |-> getMoveNotation(from, to, piece, moveType, capturedPiece)]

\* a variant that tests for a finished game before looking at the piece
makeMoveErrorGameOverFirst(b, h, turn, st, from, to) ==
    LET piece == getPiece(b, from)
    IN  IF st = CHECKMATE \/ st = STALEMATE THEN "Game is already over"
        ELSE IF piece = NoPiece THEN "No piece at the starting position"
        ELSE IF piece.color # turn
        THEN (IF turn = WHITE THEN "It's White's turn" ELSE "It's Black's turn")
        ELSE IF ~isLegalMove(b, from, to, piece, getLastMove(h)) THEN "Illegal move"
        ELSE ""

\* a variant without the test for a finished game
makeMoveErrorNoGameOver(b, h, turn, st, from, to) ==
    LET piece == getPiece(b, from)
    IN  IF piece = NoPiece THEN "No piece at the starting position"
        ELSE IF piece.color # turn
        THEN (IF turn = WHITE THEN "It's White's turn" ELSE "It's Black's turn")
        ELSE IF ~isLegalMove(b, from, to, piece, getLastMove(h)) THEN "Illegal move"
        ELSE ""

\* a variant that asks the validator before it tests for a finished game
makeMoveErrorValidatesFirst(b, h, turn, st, from, to) ==
    LET piece == getPiece(b, from)
    IN  IF piece = NoPiece THEN "No piece at the starting position"
        ELSE IF piece.color # turn
        THEN (IF turn = WHITE THEN "It's White's turn" ELSE "It's Black's turn")
        ELSE IF ~isLegalMove(b, from, to, piece, getLastMove(h)) THEN "Illegal move"
        ELSE IF st = CHECKMATE \/ st = STALEMATE THEN "Game is already over"
        ELSE ""

\* the error makeMove returns, "" when it goes on to execute the move
makeMoveError(b, h, turn, st, from, to) ==
    LET piece == getPiece(b, from)
    IN  IF piece = NoPiece THEN "No piece at the starting position"
        ELSE IF piece.color # turn
        THEN (IF turn = WHITE THEN "It's White's turn" ELSE "It's Black's turn")
        ELSE IF st = CHECKMATE \/ st = STALEMATE THEN "Game is already over"
        ELSE IF ~isLegalMove(b, from, to, piece, getLastMove(h)) THEN "Illegal move"
        ELSE ""

\* Position.fromAlgebraic for a two-character notation of the board
fromAlgebraic(notation) ==
    LET col == (CHOOSE i \in 1 .. Len(FILES) : FILES[i] = notation[1]) - 1
        rank == CHOOSE i \in 1 .. Len(RankDigits) : RankDigits[i] = notation[2]
    IN  Pos(8 - rank, col)

\* GameState.getLegalMoves: "THROW" is told apart by getLegalMovesQueryThrows
getLegalMovesQueryThrows(b, h, turn, position) ==
    /\ getPiece(b, position) # NoPiece
    /\ getPiece(b, position).color = turn
    /\ getLegalMovesThrows(position, getPiece(b, position), getLastMove(h))

\* a variant that lists the moves of a piece of either color
getLegalMovesQueryAnyColor(b, h, turn, position) ==
    IF getPiece(b, position) = NoPiece THEN <<>>
    ELSE getLegalMoves(b, position, getPiece(b, position), getLastMove(h))

getLegalMovesQuery(b, h, turn, position) ==
    IF getPiece(b, position) = NoPiece \/ getPiece(b, position).color # turn THEN <<>>
    ELSE getLegalMoves(b, position, getPiece(b, position), getLastMove(h))

----------------------------------------------------------------------------
(* The public operations of GameState.  Each is given as the outcome of   *)
(* one call on a game (b, h, turn, st): the fields of the game after the   *)
(* call and the result of the call.  A result records the operation, its  *)
(* arguments, whether it threw, and what it returned (success: the         *)
(* success flag of makeMove, the boolean of undoMove and isInCheck;        *)
(* moves: the list of getLegalMoves).                                     *)

Result(op, success, threw, error, from, to, moves) ==
    [op |-> op, success |-> success, threw |-> threw, error |-> error,
     from |-> from, to |-> to, moves |-> moves]

Outcome(b, h, turn, st, result) ==
    [board |-> b, history |-> h, currentTurn |-> turn, status |-> st, result |-> result]

\* lines 66-123 of makeMove: the move is executed and recorded and the turn
\* switched before updateStatus runs, so a throw of updateStatus leaves
\* them in place with the status of before the call
\* a variant that records the move in front of the earlier ones
makeMoveExecutedRecordsFirst(b, h, turn, st, from, to, newBoard, move, newStatus) ==
    Outcome(newBoard,
            <<[move |-> move, boardBeforeMove |-> b]>> \o h,
            getOppositeColor(turn),
            IF newStatus = "THROW" THEN st ELSE newStatus,
            Result("makeMove", newStatus # "THROW", newStatus = "THROW", "", from, to, <<>>))

\* a variant that keeps the live board itself in the entry, not a clone
\* taken before the move
makeMoveExecutedSnapshotIsLive(b, h, turn, st, from, to, newBoard, move, newStatus) ==
    Outcome(newBoard,
            Append(h, [move |-> move, boardBeforeMove |-> newBoard]),
            getOppositeColor(turn),
            IF newStatus = "THROW" THEN st ELSE newStatus,
            Result("makeMove", newStatus # "THROW", newStatus = "THROW", "", from, to, <<>>))

makeMoveExecuted(b, h, turn, st, from, to, newBoard, move, newStatus) ==
    Outcome(newBoard,
            Append(h, [move |-> move, boardBeforeMove |-> b]),
            getOppositeColor(turn),
            IF newStatus = "THROW" THEN st ELSE newStatus,
            Result("makeMove", newStatus # "THROW", newStatus = "THROW", "", from, to, <<>>))

\* a variant that hands the turn over when the validator rejects the move
makeMoveCheckedPassesTurn(b, h, turn, st, from, to, error) ==
    IF error = "Illegal move"
    THEN Outcome(b, h, getOppositeColor(turn), st,
                 Result("makeMove", FALSE, FALSE, error, from, to, <<>>))
    ELSE IF error # ""
    THEN Outcome(b, h, turn, st, Result("makeMove", FALSE, FALSE, error, from, to, <<>>))
    ELSE makeMoveExecuted(b, h, turn, st, from, to,
             executeMove(b, from, to, getPiece(b, from), getLastMove(h)),
             moveRecord(b, from, to, getPiece(b, from), getLastMove(h)),
             updateStatus(executeMove(b, from, to, getPiece(b, from), getLastMove(h)),
                          getOppositeColor(turn),
                          moveRecord(b, from, to, getPiece(b, from), getLastMove(h))))

\* lines 66-116 on the board b that isLegalMove has left: the move is
\* executed, recorded with a clone of b, and updateStatus runs on the result
makeMoveValidated(b, h, turn, st, from, to) ==
    makeMoveExecuted(b, h, turn, st, from, to,
        liveAfterUpdateStatus(executeMove(b, from, to, getPiece(b, from), getLastMove(h)),
                              getOppositeColor(turn),
                              moveRecord(b, from, to, getPiece(b, from), getLastMove(h))),
        moveRecord(b, from, to, getPiece(b, from), getLastMove(h)),
        updateStatus(executeMove(b, from, to, getPiece(b, from), getLastMove(h)),
                     getOppositeColor(turn),
                     moveRecord(b, from, to, getPiece(b, from), getLastMove(h))))

makeMoveChecked(b, h, turn, st, from, to, error) ==
    IF error = "Illegal move"
    THEN Outcome(liveAfterIsLegalMove(b, from, to, getPiece(b, from), getLastMove(h)),
                 h, turn, st, Result("makeMove", FALSE, FALSE, error, from, to, <<>>))
    ELSE IF error # ""
    THEN Outcome(b, h, turn, st, Result("makeMove", FALSE, FALSE, error, from, to, <<>>))
    ELSE makeMoveValidated(
             liveAfterIsLegalMove(b, from, to, getPiece(b, from), getLastMove(h)),
             h, turn, st, from, to)

makeMoveOutcome(b, h, turn, st, from, to) ==
    makeMoveChecked(b, h, turn, st, from, to, makeMoveError(b, h, turn, st, from, to))

\* a variant that takes the move back on the live board instead of
\* restoring the stored board
undoMoveRestoredByMovingBack(b, h, turn, st, entry, newHistory, newStatus) ==
    Outcome(movePiece(b, entry.move.to, entry.move.from),
            newHistory, getOppositeColor(turn),
            IF newStatus = "THROW" THEN st ELSE newStatus,
            Result("undoMove", newStatus # "THROW", newStatus = "THROW", "",
                   NoPos, NoPos, <<>>))

\* a variant that restores the board and leaves the side to move as it is
undoMoveRestoredKeepsTurn(b, h, turn, st, entry, newHistory, newStatus) ==
    Outcome(liveAfterUpdateStatus(entry.boardBeforeMove, getOppositeColor(turn),
                                  getLastMove(newHistory)),
            newHistory, turn,
            IF newStatus = "THROW" THEN st ELSE newStatus,
            Result("undoMove", newStatus # "THROW", newStatus = "THROW", "",
                   NoPos, NoPos, <<>>))

undoMoveRestored(b, h, turn, st, entry, newHistory, newStatus) ==
    Outcome(liveAfterUpdateStatus(entry.boardBeforeMove, getOppositeColor(turn),
                                  getLastMove(newHistory)),
            newHistory, getOppositeColor(turn),
            IF newStatus = "THROW" THEN st ELSE newStatus,
            Result("undoMove", newStatus # "THROW", newStatus = "THROW", "",
                   NoPos, NoPos, <<>>))

\* a variant that hands the turn over when there is nothing to undo
undoMoveOutcomePassesTurn(b, h, turn, st) ==
    IF Len(h) = 0
    THEN Outcome(b, h, getOppositeColor(turn), st,
                 Result("undoMove", FALSE, FALSE, "", NoPos, NoPos, <<>>))
    ELSE undoMoveRestored(b, h, turn, st, h[Len(h)], SubSeq(h, 1, Len(h) - 1),
             updateStatus(h[Len(h)].boardBeforeMove, getOppositeColor(turn),
                          getLastMove(SubSeq(h, 1, Len(h) - 1))))

undoMoveOutcome(b, h, turn, st) ==
    IF Len(h) = 0
    THEN Outcome(b, h, turn, st, Result("undoMove", FALSE, FALSE, "", NoPos, NoPos, <<>>))
    ELSE undoMoveRestored(b, h, turn, st, h[Len(h)], SubSeq(h, 1, Len(h) - 1),
             updateStatus(h[Len(h)].boardBeforeMove, getOppositeColor(turn),
                          getLastMove(SubSeq(h, 1, Len(h) - 1))))

\* the live board after GameState.getLegalMoves
liveAfterGetLegalMovesQuery(b, h, turn, position) ==
    IF getPiece(b, position) = NoPiece \/ getPiece(b, position).color # turn THEN b
    ELSE liveAfterGetLegalMoves(b, position, getPiece(b, position), getLastMove(h))

getLegalMovesOutcome(b, h, turn, st, position) ==
    Outcome(liveAfterGetLegalMovesQuery(b, h, turn, position), h, turn, st,
            IF getLegalMovesQueryThrows(b, h, turn, position)
            THEN Result("getLegalMoves", FALSE, TRUE, "", position, NoPos, <<>>)
            ELSE Result("getLegalMoves", TRUE, FALSE, "", position, NoPos,
                        getLegalMovesQuery(b, h, turn, position)))

\* a variant of the query that stores what it finds in the status
isInCheckOutcomeStoresStatus(b, h, turn, st) ==
    Outcome(b, h, turn, IF isKingInCheck(b, turn) THEN CHECK ELSE ACTIVE,
            Result("isInCheck", isKingInCheck(b, turn), FALSE, "", NoPos, NoPos, <<>>))

isInCheckOutcome(b, h, turn, st) ==
    Outcome(b, h, turn, st,
            Result("isInCheck", isKingInCheck(b, turn), FALSE, "", NoPos, NoPos, <<>>))

\* the game and the last result become those of an outcome
Becomes(o) ==
    /\ board' = o.board
    /\ history' = o.history
    /\ currentTurn' = o.currentTurn
    /\ status' = o.status
    /\ lastResult' = o.result

MaxMoves == 13

makeMove(from, to) ==
    \E o \in {makeMoveOutcome(board, history, currentTurn, status, from, to)} :
        /\ Len(o.history) <= MaxMoves
        /\ Becomes(o)

undoMove ==
    \E o \in {undoMoveOutcome(board, history, currentTurn, status)} : Becomes(o)

\* a variant that sets up the board again and keeps the history
resetKeepsHistory ==
    /\ board' = InitialBoard
    /\ history' = history
    /\ currentTurn' = WHITE
    /\ status' = ACTIVE
    /\ lastResult' = Result("reset", TRUE, FALSE, "", NoPos, NoPos, <<>>)

reset ==
    /\ board' = InitialBoard
    /\ history' = <<>>
    /\ currentTurn' = WHITE
    /\ status' = ACTIVE
    /\ lastResult' = Result("reset", TRUE, FALSE, "", NoPos, NoPos, <<>>)

getLegalMovesCall(position) ==
    \E o \in {getLegalMovesOutcome(board, history, currentTurn, status, position)} : Becomes(o)

isInCheck ==
    \E o \in {isInCheckOutcome(board, history, currentTurn, status)} : Becomes(o)

Init ==
    /\ board = InitialBoard
    /\ history = <<>>
    /\ currentTurn = WHITE
    /\ status = ACTIVE
    /\ lastResult = Result("new", TRUE, FALSE, "", NoPos, NoPos, <<>>)

----------------------------------------------------------------------------
(* The callers.  A caller replays one of the games below move by move,    *)
(* may at any point submit one of the probes, undo, reset or query, and    *)
(* may go on with any game that starts with the moves now in the history.  *)

Mv(f1, r1, f2, r2) == << fromAlgebraic(<<f1, r1>>), fromAlgebraic(<<f2, r2>>) >>

\* the four-move mate of the tests, then a reply of the mated side
FoolsMate ==
    << Mv("f","2","f","3"), Mv("e","7","e","5"), Mv("g","2","g","4"),
       Mv("d","8","h","4"), Mv("e","2","e","4") >>

\* a mate of a side that has no pawn left on the a-file and the h-file
RookPawnsGoneMate ==
    << Mv("b","2","b","4"), Mv("a","7","a","5"), Mv("g","2","g","4"),
       Mv("a","5","b","4"), Mv("e","2","e","4"), Mv("h","7","h","5"),
       Mv("f","1","c","4"), Mv("h","5","g","4"), Mv("d","1","f","3"),
       Mv("b","4","b","3"), Mv("f","3","f","7") >>

\* the same mate two moves later, once White's a-pawn stands on a4
RookPawnMate ==
    << Mv("b","2","b","4"), Mv("a","7","a","5"), Mv("g","2","g","4"),
       Mv("a","5","b","4"), Mv("e","2","e","4"), Mv("h","7","h","5"),
       Mv("f","1","c","4"), Mv("h","5","g","4"), Mv("d","1","f","3"),
       Mv("b","4","b","3"), Mv("a","2","a","4"), Mv("g","4","g","3"),
       Mv("f","3","f","7") >>

\* an en-passant capture
EnPassantGame ==
    << Mv("e","2","e","4"), Mv("a","7","a","6"), Mv("e","4","e","5"),
       Mv("d","7","d","5"), Mv("e","5","d","6") >>

\* kingside castling
CastlingGame ==
    << Mv("e","2","e","4"), Mv("e","7","e","5"), Mv("g","1","f","3"),
       Mv("b","8","c","6"), Mv("f","1","c","4"), Mv("f","8","c","5"),
       Mv("e","1","g","1") >>

\* a queen check answered by capturing the queen
QueenTakenGame ==
    << Mv("e","2","e","4"), Mv("e","7","e","5"), Mv("d","1","h","5"),
       Mv("b","8","c","6"), Mv("h","5","f","7"), Mv("e","8","f","7"),
       Mv("d","2","d","4") >>

\* a bishop check answered by a knight, found before any pawn is scanned;
\* the knight is then pinned and is asked to move away, after which the
\* bishop would be asked to take the king
BishopCheckGame ==
    << Mv("d","2","d","4"), Mv("e","7","e","6"), Mv("g","1","f","3"),
       Mv("f","8","b","4"), Mv("f","3","d","2"), Mv("b","8","c","6"),
       Mv("d","2","f","3"), Mv("b","4","e","1") >>

\* a pawn that captures its way to the last rank
PromotionGame ==
    << Mv("a","2","a","4"), Mv("b","7","b","5"), Mv("a","4","b","5"),
       Mv("a","7","a","6"), Mv("b","5","a","6"), Mv("h","7","h","6"),
       Mv("a","6","a","7"), Mv("h","6","h","5"), Mv("a","7","b","8") >>

\* the king leaves its square and comes back, then tries to castle
KingReturnsGame ==
    << Mv("e","2","e","4"), Mv("e","7","e","5"), Mv("g","1","f","3"),
       Mv("b","8","c","6"), Mv("f","1","c","4"), Mv("f","8","c","5"),
       Mv("e","1","e","2"), Mv("g","8","f","6"), Mv("e","2","e","1"),
       Mv("d","7","d","6"), Mv("e","1","g","1") >>

\* the king's rook leaves its square and comes back, then the king tries to castle
RookReturnsGame ==
    << Mv("e","2","e","4"), Mv("e","7","e","5"), Mv("g","1","f","3"),
       Mv("b","8","c","6"), Mv("f","1","c","4"), Mv("f","8","c","5"),
       Mv("h","1","g","1"), Mv("g","8","f","6"), Mv("g","1","h","1"),
       Mv("d","7","d","6"), Mv("e","1","g","1") >>

\* both sides castle on the queenside
QueensideGame ==
    << Mv("d","2","d","4"), Mv("d","7","d","5"), Mv("b","1","c","3"),
       Mv("b","8","c","6"), Mv("c","1","f","4"), Mv("c","8","f","5"),
       Mv("d","1","d","2"), Mv("d","8","d","7"), Mv("e","1","c","1"),
       Mv("e","8","c","8") >>

\* the en-passant capture of EnPassantGame tried one move pair too late
LateEnPassantGame ==
    << Mv("e","2","e","4"), Mv("a","7","a","6"), Mv("e","4","e","5"),
       Mv("d","7","d","5"), Mv("h","2","h","3"), Mv("h","7","h","6"),
       Mv("e","5","d","6") >>

\* an en-passant capture by Black
BlackEnPassantGame ==
    << Mv("h","2","h","3"), Mv("d","7","d","5"), Mv("h","3","h","4"),
       Mv("d","5","d","4"), Mv("e","2","e","4"), Mv("d","4","e","3") >>

\* an en-passant capture by Black after which a white knight is found to
\* have a move before any white pawn is looked at
KnightOutEnPassantGame ==
    << Mv("b","1","c","3"), Mv("d","7","d","5"), Mv("c","3","b","5"),
       Mv("d","5","d","4"), Mv("e","2","e","4"), Mv("d","4","e","3") >>

\* a pawn that walks to an empty square of the last rank
PlainPromotionGame ==
    << Mv("a","2","a","4"), Mv("b","7","b","5"), Mv("a","4","b","5"),
       Mv("b","8","c","6"), Mv("b","5","b","6"), Mv("g","8","f","6"),
       Mv("b","6","b","7"), Mv("f","6","g","8"), Mv("b","7","b","8") >>

\* a black pawn that captures its way to the first rank
BlackPromotionGame ==
    << Mv("b","2","b","4"), Mv("a","7","a","5"), Mv("g","1","f","3"),
       Mv("a","5","b","4"), Mv("f","3","g","1"), Mv("b","4","b","3"),
       Mv("g","1","f","3"), Mv("b","3","a","2"), Mv("f","3","g","1"),
       Mv("a","2","b","1") >>

Games == << FoolsMate, RookPawnsGoneMate, RookPawnMate, EnPassantGame, CastlingGame,
            QueenTakenGame, BishopCheckGame, PromotionGame, KingReturnsGame,
            RookReturnsGame, QueensideGame, LateEnPassantGame, BlackEnPassantGame,
            KnightOutEnPassantGame, PlainPromotionGame,
            BlackPromotionGame >>

Played(h) == [i \in 1 .. Len(h) |-> << h[i].move.from, h[i].move.to >>]

\* the next moves of the games that start with the moves played so far
Offered(h) ==
    { Games[g][Len(h) + 1] :
        g \in { x \in DOMAIN Games :
                  /\ Len(Games[x]) > Len(h)
                  /\ SubSeq(Games[x], 1, Len(h)) = Played(h) } }

\* calls submitted in any state: from a square that is empty for most of a
\* game, and moves no piece can make
Probes ==
    { Mv("h","6","h","5"), Mv("e","2","e","5"), Mv("e","7","e","4"),
      Mv("e","1","e","3"), Mv("e","8","e","6") }

QueryPositions ==
    { fromAlgebraic(<<"a","2">>), fromAlgebraic(<<"e","2">>),
      fromAlgebraic(<<"h","7">>), fromAlgebraic(<<"e","4">>) }

Next ==
    \/ \E in \in Offered(history) \cup Probes : makeMove(in[1], in[2])
    \/ undoMove
    \/ reset
    \/ \E position \in QueryPositions : getLegalMovesCall(position)
    \/ isInCheck

Spec == Init /\ [][Next]_vars

----------------------------------------------------------------------------
(* Properties of the engine, by claim.                                     *)

\* C1: makeMove(from, to) and undoMove() run to completion and return a
\* result in every reachable state; neither ever raises a fault.
C1_CallsReturn ==
    lastResult.op \in {"makeMove", "undoMove"} => ~lastResult.threw

\* The call just made was makeMove with move i of the Fool's mate, on the
\* position reached by its first i - 1 moves.
FoolsMateCall(i) ==
    /\ lastResult.op = "makeMove"
    /\ lastResult.from = FoolsMate[i][1]
    /\ lastResult.to = FoolsMate[i][2]
    /\ \/ Played(history) = SubSeq(FoolsMate, 1, i)
       \/ Played(history) = SubSeq(FoolsMate, 1, i - 1) /\ lastResult.error # ""

\* C2: f2-f3, e7-e5, g2-g4, d8-h4 from the initial position all succeed,
\* and after the fourth the status is CHECKMATE with four moves recorded.
C2_FoolsMate ==
    /\ \A i \in 1 .. 4 : FoolsMateCall(i) => lastResult.success
    /\ FoolsMateCall(4) => (status = CHECKMATE /\ getMoveCount(history) = 4)

\* C3: a makeMove call that returns success = false leaves the board (the
\* hasMoved flags included), the side to move, the status and the move
\* history exactly as they were.
C3_FailedMoveChangesNothing ==
    [][(lastResult'.op = "makeMove" /\ ~lastResult'.success /\ ~lastResult'.threw)
          => UNCHANGED game]_vars

\* a move rejected by the validator in the middle of a game
C3_Witness ==
    /\ lastResult.op = "makeMove"
    /\ lastResult.error = "Illegal move"
    /\ getMoveCount(history) >= 4

\* Some piece of the colour has a move that makeMove would accept.
HasLegalMove(b, color, lastMove) ==
    \E k \in 1 .. Len(ScanOrder) :
        /\ getPiece(b, ScanOrder[k]).color = color
        /\ \E j \in 1 .. Len(ScanOrder) :
               isLegalMove(b, ScanOrder[k], ScanOrder[j], getPiece(b, ScanOrder[k]), lastMove)

\* The status the position calls for, tested in the order CHECKMATE,
\* STALEMATE, CHECK, ACTIVE.
DerivedStatus(b, turn, lastMove) ==
    IF isKingInCheck(b, turn) /\ ~HasLegalMove(b, turn, lastMove) THEN CHECKMATE
    ELSE IF ~isKingInCheck(b, turn) /\ ~HasLegalMove(b, turn, lastMove) THEN STALEMATE
    ELSE IF isKingInCheck(b, turn) THEN CHECK
    ELSE ACTIVE

\* C4: the stored status always equals the status derived from the board,
\* the side to move and the last move of the history.
C4_StatusIsDerived ==
    status = DerivedStatus(board, currentTurn, getLastMove(history))

\* The game after undoMove is called on the game of an outcome.
UndoneAfter(o) ==
    undoMoveOutcome(o.board, o.history, o.currentTurn, o.status)

\* C5: from any reachable state, a makeMove that returns success = true
\* followed immediately by undoMove gives back the state: the same board
\* (hasMoved flags and captured piece included), the same side to move,
\* the same move count and the same status.
C5_RoundTrip ==
    \A in \in Offered(history) \cup Probes :
        \A o \in {makeMoveOutcome(board, history, currentTurn, status, in[1], in[2])} :
            o.result.success =>
                /\ UndoneAfter(o).board = board
                /\ UndoneAfter(o).currentTurn = currentTurn
                /\ getMoveCount(UndoneAfter(o).history) = getMoveCount(history)
                /\ UndoneAfter(o).status = status

\* Attack geometry, written from the rules of movement: the squares strictly
\* between two squares of a line, and whether the piece on a square attacks
\* another square.
Sign(n) == IF n > 0 THEN 1 ELSE IF n < 0 THEN -1 ELSE 0

PathClear(b, from, to) ==
    \A k \in 1 .. 7 :
        (k < Abs(to.row - from.row) \/ k < Abs(to.col - from.col))
        => getPiece(b, Pos(from.row + k * Sign(to.row - from.row),
                           from.col + k * Sign(to.col - from.col))) = NoPiece

Attacks(b, from, to) ==
    LET piece == getPiece(b, from)
        dr == to.row - from.row
        dc == to.col - from.col
        straight == (dr = 0) # (dc = 0)
        diagonal == Abs(dr) = Abs(dc) /\ dr # 0
    IN  CASE piece.type = PAWN   -> dr = (IF piece.color = WHITE THEN -1 ELSE 1) /\ Abs(dc) = 1
          [] piece.type = KNIGHT -> {Abs(dr), Abs(dc)} = {1, 2}
          [] piece.type = KING   -> Abs(dr) <= 1 /\ Abs(dc) <= 1 /\ from # to
          [] piece.type = ROOK   -> straight /\ PathClear(b, from, to)
          [] piece.type = BISHOP -> diagonal /\ PathClear(b, from, to)
          [] piece.type = QUEEN  -> (straight \/ diagonal) /\ PathClear(b, from, to)
          [] OTHER -> FALSE

KingAttacked(b, color) ==
    \E kr \in Rows, kc \in Rows :
        /\ getPiece(b, Pos(kr, kc)).type = KING
        /\ getPiece(b, Pos(kr, kc)).color = color
        /\ \E r \in Rows, c \in Rows :
               /\ getPiece(b, Pos(r, c)).color = getOppositeColor(color)
               /\ Attacks(b, Pos(r, c), Pos(kr, kc))

\* C6: after every makeMove that executes a move (normal, capture,
\* castling, en passant or promotion), the king of the side that moved is
\* not attacked on the resulting board.  The moves whose status update
\* threw are included with those that returned success = true.
C6_MoverKingSafe ==
    (lastResult.op = "makeMove" /\ (lastResult.success \/ lastResult.threw))
    => ~KingAttacked(board, getOppositeColor(currentTurn))

\* a side in check has answered the check with a successful move
C6_Witness ==
    /\ lastResult.op = "makeMove"
    /\ lastResult.success
    /\ KingAttacked(history[Len(history)].boardBeforeMove, getOppositeColor(currentTurn))
    /\ ~KingAttacked(board, getOppositeColor(currentTurn))

\* C7: makeMove rejects in a fixed order: NoPiece when from is empty, then
\* WrongTurn when the piece is not of the side to move, then GameOver when
\* the status is CHECKMATE or STALEMATE, then IllegalMove when the
\* validator rejects the move given the last move of the history.
C7_RejectionOrder ==
    [][lastResult'.op = "makeMove" =>
          lastResult'.error =
              (IF getPiece(board, lastResult'.from) = NoPiece
                   THEN "No piece at the starting position"
               ELSE IF getPiece(board, lastResult'.from).color # currentTurn
                   THEN (IF currentTurn = WHITE THEN "It's White's turn"
                                                ELSE "It's Black's turn")
               ELSE IF status \in {CHECKMATE, STALEMATE}
                   THEN "Game is already over"
               ELSE IF ~isLegalMove(board, lastResult'.from, lastResult'.to,
                                    getPiece(board, lastResult'.from), getLastMove(history))
                   THEN "Illegal move"
               ELSE "")]_vars

\* in a finished game a piece of the side not to move is refused for its turn
C7_Witness ==
    /\ status = CHECKMATE
    /\ lastResult.op = "makeMove"
    /\ lastResult.error \in {"It's White's turn", "It's Black's turn"}

C9_AnyMoveGameOver ==
    [][(status = CHECKMATE /\ lastResult'.op = "makeMove")
          => lastResult'.error = "Game is already over"]_vars

\* C9, amended: once the status is CHECKMATE, a makeMove call whose from
\* square holds a piece of the side to move fails with GameOver, whatever
\* its to square; from an empty square it fails with NoPiece and from a
\* piece of the other side with WrongTurn.
C9_OwnPieceGameOver ==
    [][(status = CHECKMATE /\ lastResult'.op = "makeMove") =>
          /\ ~lastResult'.success
          /\ (lastResult'.error = "Game is already over")
                 <=> (getPiece(board, lastResult'.from).color = currentTurn)
          /\ (lastResult'.error = "No piece at the starting position")
                 <=> (getPiece(board, lastResult'.from) = NoPiece)]_vars

\* the mated side has tried a move with one of its pieces
C9_Witness ==
    /\ status = CHECKMATE
    /\ isKingInCheck(board, currentTurn)
    /\ lastResult.op = "makeMove"
    /\ lastResult.error = "Game is already over"

\* C10 as stated: the status changes only through makeMove, and a
\* CHECKMATE or STALEMATE status, once reached, is never left.
C10_OnlyMakeMove ==
    [][/\ status' # status => lastResult'.op = "makeMove"
       /\ status \in {CHECKMATE, STALEMATE} => status' = status]_vars

\* C10, amended: the status changes only through makeMove, undoMove (which
\* recomputes it for the restored position) and reset (which sets ACTIVE);
\* the queries getLegalMoves and isInCheck never change it; and a CHECKMATE
\* or STALEMATE status is never left by makeMove, only by undoMove or reset.
C10_StatusChanges ==
    [][/\ status' # status => lastResult'.op \in {"makeMove", "undoMove", "reset"}
       /\ (status \in {CHECKMATE, STALEMATE} /\ status' # status)
              => lastResult'.op \in {"undoMove", "reset"}]_vars

\* a query has been answered in a finished game
C10_Witness ==
    /\ status = CHECKMATE
    /\ lastResult.op = "isInCheck"
    /\ lastResult.success

\* C11: after a successful makeMove the side to move has flipped, the move
\* count has grown by exactly 1, the move just made is the last element of
\* the history, and the earlier entries are unchanged and in the order in
\* which they were executed.
C11_MoveRecorded ==
    [][(lastResult'.op = "makeMove" /\ lastResult'.success) =>
          /\ currentTurn' = getOppositeColor(currentTurn)
          /\ getMoveCount(history') = getMoveCount(history) + 1
          /\ SubSeq(history', 1, Len(history)) = history
          /\ getLastMove(history').from = lastResult'.from
          /\ getLastMove(history').to = lastResult'.to
          /\ getLastMove(history').piece.type = getPiece(board, lastResult'.from).type
          /\ getLastMove(history').piece.color = currentTurn]_vars

\* a third move has been recorded behind two earlier ones
C11_Witness ==
    /\ lastResult.op = "makeMove"
    /\ lastResult.success
    /\ getMoveCount(history) = 3
    /\ getLastMove(history).to = lastResult.to

\* C12: undoMove on a game with an empty history returns false and leaves
\* the board, the side to move, the status and the history unchanged.
C12_UndoNothing ==
    [][(getMoveCount(history) = 0 /\ lastResult'.op = "undoMove") =>
          /\ ~lastResult'.success
          /\ ~lastResult'.threw
          /\ UNCHANGED game]_vars

\* undoMove has returned false on an empty history
C12_Witness ==
    /\ lastResult.op = "undoMove"
    /\ ~lastResult.success
    /\ ~lastResult.threw
    /\ getMoveCount(history) = 0

\* The status update that followed move i of the history did not throw: it
\* ran on the board kept with move i + 1 (the live board for the last move).
MoveSucceeded(b, h, i) ==
    updateStatus(IF i < Len(h) THEN h[i + 1].boardBeforeMove ELSE b,
                 getOppositeColor(h[i].move.piece.color),
                 h[i].move) # "THROW"

\* One undoMove on the game of an outcome succeeds and removes exactly the
\* last entry, and so do all the following ones until the history is empty,
\* where undoMove returns false.
RECURSIVE UndoChain(_, _)
UndoChain(o, undone) ==
    IF Len(o.history) = 0
    THEN /\ ~undone.result.success
         /\ ~undone.result.threw
         /\ undone.history = <<>>
    ELSE /\ undone.result.success
         /\ undone.history = SubSeq(o.history, 1, Len(o.history) - 1)
         /\ UndoChain(undone, UndoneAfter(undone))

\* C13: a successful undoMove removes exactly the most recent history
\* entry, so after k successful makeMove calls from the start exactly k
\* consecutive undoMove calls succeed (move count k - 1, ..., 0) and the
\* next one returns false.  Stated in the states a successful makeMove
\* has just produced.
C13_UndoChain ==
    (lastResult.op = "makeMove" /\ lastResult.success)
    => UndoChain(Outcome(board, history, currentTurn, status, lastResult),
                 undoMoveOutcome(board, history, currentTurn, status))

\* What holds of undoMove: when it succeeds it removes exactly the last
\* entry, and the chain of undos goes through when every move of the
\* history was followed by a status update that did not throw.
UndoPopsLast ==
    \A o \in {undoMoveOutcome(board, history, currentTurn, status)} :
        /\ o.result.success =>
               o.history = SubSeq(history, 1, Len(history) - 1)
        /\ (lastResult.op = "makeMove" /\ lastResult.success
               /\ \A i \in 1 .. Len(history) - 1 : MoveSucceeded(board, history, i))
           => UndoChain(Outcome(board, history, currentTurn, status, lastResult), o)

\* The standard starting layout, every piece unmoved.
StandardStart(b) ==
    /\ \A c \in Rows :
           /\ b[0][c] = [type |-> <<ROOK, KNIGHT, BISHOP, QUEEN, KING, BISHOP, KNIGHT, ROOK>>[c + 1],
                         color |-> BLACK, hasMoved |-> FALSE]
           /\ b[1][c] = [type |-> PAWN, color |-> BLACK, hasMoved |-> FALSE]
           /\ b[6][c] = [type |-> PAWN, color |-> WHITE, hasMoved |-> FALSE]
           /\ b[7][c] = [type |-> <<ROOK, KNIGHT, BISHOP, QUEEN, KING, BISHOP, KNIGHT, ROOK>>[c + 1],
                         color |-> WHITE, hasMoved |-> FALSE]
    /\ \A r \in 2 .. 5 : \A c \in Rows : b[r][c] = NoPiece

\* The twenty first moves of a game: a pawn one or two squares ahead, a
\* knight to the third rank.
OpeningMove(from, to) ==
    \/ from.row = 6 /\ to.col = from.col /\ to.row \in {5, 4}
    \/ from.row = 7 /\ from.col \in {1, 6} /\ to.row = 5 /\ Abs(to.col - from.col) = 1

\* every move of the scripted games, and the probes
ScriptedInputs ==
    Probes \cup UNION { { Games[g][i] : i \in DOMAIN Games[g] } : g \in DOMAIN Games }

\* C14: from any reachable state, reset() yields the state of a freshly
\* constructed game: the standard starting layout with every piece
\* unmoved, WHITE to move, status ACTIVE, an empty history; and a move
\* submitted after reset is validated against that board and that empty
\* history only, so exactly the first moves of a game are accepted.
C14_ResetIsFresh ==
    [][lastResult'.op = "reset" =>
          /\ StandardStart(board')
          /\ currentTurn' = WHITE
          /\ status' = ACTIVE
          /\ history' = <<>>
          /\ \A in \in ScriptedInputs :
                 (makeMoveError(board', history', currentTurn', status', in[1], in[2]) = "")
                     <=> OpeningMove(in[1], in[2])]_vars

\* reset has been called
C14_Witness ==
    /\ lastResult.op = "reset"
    /\ StandardStart(board)
    /\ getMoveCount(history) = 0

\* A move of the colour's king is in the history.
KingRelocated(h, color) ==
    \E i \in 1 .. Len(h) :
        h[i].move.piece.type = KING /\ h[i].move.piece.color = color

\* A move of a rook of the colour away from the corner of the side
\* (column 7 kingside, column 0 queenside) is in the history.
RookRelocated(h, color, rookCol) ==
    \E i \in 1 .. Len(h) :
        /\ h[i].move.piece.type = ROOK
        /\ h[i].move.piece.color = color
        /\ h[i].move.from = Pos(getBackRank(color), rookCol)

\* C15: castling rights are lost for good once the king or the rook of the
\* side has moved: while such a move is in the history (it has not been
\* undone), every castling attempt of that colour on that side is
\* rejected and changes nothing, even when the king or the rook stands on
\* its home square again.
C15_CastlingRightsLost ==
    [][(/\ lastResult'.op = "makeMove"
        /\ getPiece(board, lastResult'.from).type = KING
        /\ getPiece(board, lastResult'.from).color = currentTurn
        /\ lastResult'.to.row = lastResult'.from.row
        /\ Abs(lastResult'.to.col - lastResult'.from.col) = 2
        /\ \/ KingRelocated(history, currentTurn)
           \/ RookRelocated(history, currentTurn,
                            IF lastResult'.to.col > lastResult'.from.col THEN 7 ELSE 0))
          => (lastResult'.error # "" /\ UNCHANGED game)]_vars

\* the king has gone to e2 and back to e1, the rook stands unmoved on h1,
\* f1 and g1 are empty and no square of the king's way is attacked, and
\* castling has been refused
C15_Witness ==
    /\ lastResult.op = "makeMove"
    /\ lastResult.from = Pos(7, 4)
    /\ lastResult.to = Pos(7, 6)
    /\ lastResult.error = "Illegal move"
    /\ KingRelocated(history, WHITE)
    /\ ~RookRelocated(history, WHITE, 7)
    /\ getPiece(board, Pos(7, 4)).type = KING
    /\ getPiece(board, Pos(7, 7)) = [type |-> ROOK, color |-> WHITE, hasMoved |-> FALSE]
    /\ getPiece(board, Pos(7, 5)) = NoPiece
    /\ getPiece(board, Pos(7, 6)) = NoPiece
    /\ ~KingAttacked(board, WHITE)
    /\ ~KingAttacked([board EXCEPT ![7][4] = NoPiece, ![7][5] = board[7][4]], WHITE)
    /\ ~KingAttacked([board EXCEPT ![7][4] = NoPiece, ![7][6] = board[7][4]], WHITE)

----------------------------------------------------------------------------
(* canCastle as a function of the board.  A second specification draws    *)
(* its boards from a bounded family and asks canCastle for both colours   *)
(* and both sides.  A board of the family has one side (own) whose home   *)
(* rank is varied, the other side with king and rooks unmoved at home,    *)
(* at most one enemy attacker near own's home rank and at most one own    *)
(* knight standing on that rank.                                          *)

EmptyBoard == [r \in Rows |-> [c \in Rows |-> NoPiece]]

\* how own's king and rooks stand on the home rank
HomeVariants ==
    { "home", "kingMoved", "hRookMoved", "aRookMoved", "hRookGone", "aRookGone",
      "kingOnD", "knightOnH", "queenOnE" }

HomeRank(b, color, variant) ==
    LET r == getBackRank(color)
        king == Piece(KING, color, variant = "kingMoved")
        kingCol == IF variant = "kingOnD" THEN 3 ELSE IF variant = "queenOnE" THEN 3 ELSE 4
        hPiece == CASE variant = "hRookGone" -> NoPiece
                    [] variant = "knightOnH" -> Piece(KNIGHT, color, FALSE)
                    [] OTHER -> Piece(ROOK, color, variant = "hRookMoved")
        aPiece == IF variant = "aRookGone" THEN NoPiece
                  ELSE Piece(ROOK, color, variant = "aRookMoved")
        withKing == setPiece(b, Pos(r, kingCol), king)
        withE == IF variant = "queenOnE"
                 THEN setPiece(withKing, Pos(r, 4), Piece(QUEEN, color, FALSE))
                 ELSE withKing
    IN  setPiece(setPiece(withE, Pos(r, 7), hPiece), Pos(r, 0), aPiece)

\* an enemy attacker stands at most this many rows from own's home rank
AttackerReach == 3

NoAttacker == [type |-> "NONE", distance |-> 0, col |-> 0]

Attackers ==
    {NoAttacker} \cup
    [type : {PAWN, KNIGHT, BISHOP, ROOK, QUEEN}, distance : 1 .. AttackerReach, col : Rows]

\* the files of the home rank on which an own knight may stand (-1: none)
BlockerCols == {-1, 1, 2, 3, 5, 6}

CastleBoard(own, variant, attacker, blockerCol) ==
    LET enemy == getOppositeColor(own)
        r == getBackRank(own)
        homes == HomeRank(HomeRank(EmptyBoard, enemy, "home"), own, variant)
        attacked == IF attacker = NoAttacker THEN homes
                    ELSE setPiece(homes,
                                  Pos(IF own = WHITE THEN r - attacker.distance
                                      ELSE r + attacker.distance, attacker.col),
                                  Piece(attacker.type, enemy, TRUE))
    IN  IF blockerCol = -1 \/ getPiece(attacked, Pos(r, blockerCol)) # NoPiece THEN attacked
        ELSE setPiece(attacked, Pos(r, blockerCol), Piece(KNIGHT, own, TRUE))

CastleBoards ==
    { CastleBoard(own, variant, attacker, blockerCol) :
        own \in {WHITE, BLACK}, variant \in HomeVariants,
        attacker \in Attackers, blockerCol \in BlockerCols }

CastleInit ==
    /\ board \in CastleBoards
    /\ history = <<>>
    /\ currentTurn = WHITE
    /\ status = ACTIVE
    /\ lastResult = Result("new", TRUE, FALSE, "", NoPos, NoPos, <<>>)

\* the king's home square and the square it would castle to
castlingFrom(color) == Pos(getBackRank(color), 4)

castlingTo(color, side) == Pos(getBackRank(color), IF side = "kingside" THEN 6 ELSE 2)

\* one call of canCastle on the board drawn; it changes nothing
canCastleCall(color, side) ==
    /\ lastResult.op = "new"
    /\ lastResult' = Result("canCastle", canCastle(board, color, side), FALSE, "",
                            castlingFrom(color), castlingTo(color, side), <<>>)
    /\ UNCHANGED game

CastleNext ==
    \E color \in {WHITE, BLACK}, side \in {"kingside", "queenside"} : canCastleCall(color, side)

CastleSpec == CastleInit /\ [][CastleNext]_vars

\* the rule of C16, written with the attack geometry above
CastleRule(b, color, side) ==
    LET r == getBackRank(color)
        king == b[r][4]
        rook == b[r][IF side = "kingside" THEN 7 ELSE 0]
        between == IF side = "kingside" THEN {5, 6} ELSE {1, 2, 3}
        transit == IF side = "kingside" THEN {5, 6} ELSE {3, 2}
    IN  /\ king.type = KING /\ ~king.hasMoved
        /\ rook.type = ROOK /\ ~rook.hasMoved
        /\ \A c \in between : b[r][c] = NoPiece
        /\ ~KingAttacked(b, color)
        /\ \A c \in transit :
              ~KingAttacked([b EXCEPT ![r][4] = NoPiece, ![r][c] = king], color)

\* the color and side asked by the last call of canCastle
AskedColor == IF lastResult.from.row = 7 THEN WHITE ELSE BLACK

AskedSide == IF lastResult.to.col = 6 THEN "kingside" ELSE "queenside"

\* C16: canCastle(color, side) answers true exactly when an unmoved KING
\* stands on the e-file of the color's back rank, an unmoved ROOK stands on
\* the h-file (kingside) or a-file (queenside) of that rank, every square
\* strictly between them is empty, the king is not in check, and the king
\* alone relocated to each of the two squares it transits is not in check;
\* an attack on the b-file square alone does not forbid queenside castling.
C16_CanCastleExact ==
    lastResult.op = "canCastle"
    => (lastResult.success <=> CastleRule(board, AskedColor, AskedSide))

\* canCastle agreed to castle queenside although an enemy piece attacks the
\* empty b-file square of the back rank
C16_Witness ==
    /\ lastResult.op = "canCastle"
    /\ lastResult.success
    /\ AskedSide = "queenside"
    /\ \E r \in Rows, c \in Rows :
           /\ getPiece(board, Pos(r, c)).color = getOppositeColor(AskedColor)
           /\ Attacks(board, Pos(r, c), Pos(getBackRank(AskedColor), 1))

----------------------------------------------------------------------------
\* the squares of a board that differ from another board
ChangedSquares(before, after) ==
    { sq \in [row : Rows, col : Rows] : getPiece(before, sq) # getPiece(after, sq) }

\* the step is a makeMove that returned success
SuccessfulMove == lastResult'.op = "makeMove" /\ lastResult'.success

\* C17: a successful makeMove of a king from the e-file two columns
\* sideways leaves the king on the g-file and the rook on the f-file
\* (kingside) or the king on the c-file and the rook on the d-file
\* (queenside) of that rank, both marked as moved, leaves the home squares
\* of king and rook empty, changes no other square, and records
\* CASTLE_KINGSIDE with "O-O" or CASTLE_QUEENSIDE with "O-O-O".
C17_CastlingEffect ==
    [][ (/\ SuccessfulMove
         /\ getPiece(board, lastResult'.from).type = KING
         /\ lastResult'.from.col = 4
         /\ Abs(lastResult'.to.col - lastResult'.from.col) = 2)
        => LET r == lastResult'.from.row
               color == getPiece(board, lastResult'.from).color
               kingside == lastResult'.to.col = 6
               rookHome == Pos(r, IF kingside THEN 7 ELSE 0)
               rookTo == Pos(r, IF kingside THEN 5 ELSE 3)
               kingTo == Pos(r, IF kingside THEN 6 ELSE 2)
               move == getLastMove(history')
           IN  /\ lastResult'.to = kingTo
               /\ getPiece(board', kingTo) = Piece(KING, color, TRUE)
               /\ getPiece(board', rookTo) = Piece(ROOK, color, TRUE)
               /\ getPiece(board', lastResult'.from) = NoPiece
               /\ getPiece(board', rookHome) = NoPiece
               /\ ChangedSquares(board, board') = {lastResult'.from, kingTo, rookHome, rookTo}
               /\ move.moveType = (IF kingside THEN "CASTLE_KINGSIDE" ELSE "CASTLE_QUEENSIDE")
               /\ move.notation = (IF kingside THEN << "O", "-", "O" >>
                                   ELSE << "O", "-", "O", "-", "O" >>)
               /\ Len(history') = Len(history) + 1 ]_vars

\* Black has just castled queenside with success: king on c8, rook on d8
C17_Witness ==
    /\ lastResult.op = "makeMove"
    /\ lastResult.success
    /\ getLastMove(history).moveType = "CASTLE_QUEENSIDE"
    /\ getLastMove(history).piece.color = BLACK
    /\ getPiece(board, Pos(0, 2)) = Piece(KING, BLACK, TRUE)
    /\ getPiece(board, Pos(0, 3)) = Piece(ROOK, BLACK, TRUE)

----------------------------------------------------------------------------
\* the step is a call makeMove(from, to) in which the side to move asks one
\* of its pawns to step to another file onto an empty square
PawnDiagonalIntoEmpty ==
    /\ lastResult'.op = "makeMove"
    /\ getPiece(board, lastResult'.from).type = PAWN
    /\ getPiece(board, lastResult'.from).color = currentTurn
    /\ lastResult'.to.col # lastResult'.from.col
    /\ getPiece(board, lastResult'.to) = NoPiece

\* the last move of the history is an enemy pawn's advance of two ranks
\* that landed beside the pawn on `from`, which stands on row 3 (White) or
\* row 4 (Black), and `to` is the square that pawn passed over
EnPassantDue(b, h, from, to) ==
    LET lastMove == getLastMove(h)
        color == getPiece(b, from).color
    IN  /\ lastMove # NoMove
        /\ lastMove.piece.type = PAWN
        /\ lastMove.piece.color = getOppositeColor(color)
        /\ lastMove.to.col = lastMove.from.col
        /\ lastMove.to.row - lastMove.from.row = (IF color = WHITE THEN 2 ELSE -2)
        /\ getPiece(b, lastMove.to) = lastMove.piece
        /\ lastMove.to.row = from.row
        /\ Abs(lastMove.to.col - from.col) = 1
        /\ from.row = (IF color = WHITE THEN 3 ELSE 4)
        /\ to = Pos((lastMove.from.row + lastMove.to.row) \div 2, lastMove.to.col)

\* C18: makeMove executes a pawn's step to another file onto an empty
\* square only when the last move of the history is an enemy pawn's two-rank
\* advance that landed beside the capturing pawn (on row 3 for White, row 4
\* for Black) and the destination is the square behind that pawn; when the
\* last move is anything else the call changes nothing and, the game not
\* being over, returns "Illegal move".
C18_EnPassantTiming ==
    [][ PawnDiagonalIntoEmpty
        => IF EnPassantDue(board, history, lastResult'.from, lastResult'.to)
           THEN TRUE
           ELSE /\ UNCHANGED game
                /\ ~lastResult'.success /\ ~lastResult'.threw
                /\ (status \notin {CHECKMATE, STALEMATE} => lastResult'.error = "Illegal move") ]_vars

\* the capture e5xd6 was refused as illegal: the black pawn that advanced
\* d7-d5 still stands beside the white pawn, but two other moves have been
\* played since
C18_Witness ==
    /\ lastResult.op = "makeMove"
    /\ lastResult.error = "Illegal move"
    /\ lastResult.from = Pos(3, 4) /\ lastResult.to = Pos(2, 3)
    /\ getPiece(board, Pos(3, 4)) = Piece(PAWN, WHITE, TRUE)
    /\ getPiece(board, Pos(3, 3)) = Piece(PAWN, BLACK, TRUE)
    /\ getPiece(board, Pos(2, 3)) = NoPiece
    /\ Len(history) >= 3
    /\ history[Len(history) - 2].move.from = Pos(1, 3)
    /\ history[Len(history) - 2].move.to = Pos(3, 3)

----------------------------------------------------------------------------
\* C19: a makeMove that executes an en-passant capture leaves the capturing
\* pawn on the destination, leaves its origin empty, removes the enemy pawn
\* from the square it reached with its double step (the last move's `to`,
\* which is not the destination), changes no other square, and records the
\* move type EN_PASSANT.
C19_EnPassantEffect ==
    [][ (/\ PawnDiagonalIntoEmpty
         /\ Len(history') = Len(history) + 1)
        => LET from == lastResult'.from
               to == lastResult'.to
               pawn == getPiece(board, from)
               passed == getLastMove(history).to
               move == getLastMove(history')
           IN  /\ getPiece(board', to) = Piece(PAWN, pawn.color, TRUE)
               /\ getPiece(board', from) = NoPiece
               /\ passed # to
               /\ getPiece(board, passed) = Piece(PAWN, getOppositeColor(pawn.color), TRUE)
               /\ getPiece(board', passed) = NoPiece
               /\ ChangedSquares(board, board') = {from, to, passed}
               /\ move.moveType = "EN_PASSANT"
               /\ move.from = from /\ move.to = to ]_vars

\* Black has just captured en passant with success: the pawn from d4 stands
\* on e3 and e4, where the white pawn had landed, is empty
C19_Witness ==
    /\ lastResult.op = "makeMove"
    /\ lastResult.success
    /\ lastResult.from = Pos(4, 3) /\ lastResult.to = Pos(5, 4)
    /\ getLastMove(history).moveType = "EN_PASSANT"
    /\ getPiece(board, Pos(5, 4)) = Piece(PAWN, BLACK, TRUE)
    /\ getPiece(board, Pos(4, 4)) = NoPiece
    /\ getPiece(board, Pos(4, 3)) = NoPiece

----------------------------------------------------------------------------
\* C20: when makeMove executes a pawn's move to the farthest rank of its
\* color (row 0 for White, row 7 for Black), onto an empty square or with a
\* capture, the destination then holds a QUEEN of the pawn's color, the
\* origin is empty, no pawn stands on that rank, the move type is PROMOTION
\* and the notation ends with "=Q".
C20_PromotionEffect ==
    [][ (/\ lastResult'.op = "makeMove"
         /\ Len(history') = Len(history) + 1
         /\ getPiece(board, lastResult'.from).type = PAWN
         /\ lastResult'.to.row = (IF getPiece(board, lastResult'.from).color = WHITE
                                  THEN 0 ELSE 7))
        => LET from == lastResult'.from
               to == lastResult'.to
               move == getLastMove(history')
               n == Len(move.notation)
           IN  /\ getPiece(board', to).type = QUEEN
               /\ getPiece(board', to).color = getPiece(board, from).color
               /\ getPiece(board', from) = NoPiece
               /\ \A c \in Rows : getPiece(board', Pos(to.row, c)).type # PAWN
               /\ move.moveType = "PROMOTION"
               /\ n >= 2
               /\ SubSeq(move.notation, n - 1, n) = << "=", "Q" >> ]_vars

\* a white pawn has just stepped from b7 to the empty square b8 with
\* success and a white queen stands there
C20_Witness ==
    /\ lastResult.op = "makeMove"
    /\ lastResult.success
    /\ lastResult.from = Pos(1, 1) /\ lastResult.to = Pos(0, 1)
    /\ getLastMove(history).moveType = "PROMOTION"
    /\ getLastMove(history).capturedPiece = NoPiece
    /\ getLastMove(history).notation = << "b", "8", "=", "Q" >>
    /\ getPiece(board, Pos(0, 1)).type = QUEEN
    /\ getPiece(board, Pos(0, 1)).color = WHITE

----------------------------------------------------------------------------
(* MoveValidator.getLegalMoves as a function of the board.  A third        *)
(* specification draws its boards from two bounded families and asks for  *)
(* the legal moves of every piece of the side to move, with no last      *)
(* move.  A pin board has a king of one side (own) on e4, one more own    *)
(* piece beside it, the enemy king on b8 and at most one enemy line piece *)
(* on a line through e4.  The other family is the boards of CastleBoards  *)
(* whose home rank is untouched, so that castling destinations are        *)
(* listed.                                                                *)

\* the own piece stands at most this many rows and columns from its king
PinReach == 1

PinKingSquare == Pos(4, 4)

PinEnemyKingSquare == Pos(0, 1)

\* the squares on the row, the column and the diagonals of a square
LinesThrough(sq) ==
    { p \in [row : Rows, col : Rows] :
        /\ p # sq
        /\ \/ p.row = sq.row \/ p.col = sq.col
           \/ Abs(p.row - sq.row) = Abs(p.col - sq.col) }

NearSquares(sq) ==
    { p \in [row : Rows, col : Rows] :
        /\ p # sq
        /\ Abs(p.row - sq.row) <= PinReach
        /\ Abs(p.col - sq.col) <= PinReach }

NoPinner == [type |-> "NONE", square |-> NoPos]

Pinners ==
    {NoPinner} \cup
    [type : {ROOK, BISHOP, QUEEN}, square : LinesThrough(PinKingSquare) \ {PinEnemyKingSquare}]

PinBoard(own, type, square, pinner) ==
    LET enemy == getOppositeColor(own)
        kings == setPiece(setPiece(EmptyBoard, PinKingSquare, Piece(KING, own, TRUE)),
                          PinEnemyKingSquare, Piece(KING, enemy, TRUE))
        withOwn == setPiece(kings, square, Piece(type, own, TRUE))
    IN  IF pinner = NoPinner \/ getPiece(withOwn, pinner.square) # NoPiece THEN withOwn
        ELSE setPiece(withOwn, pinner.square, Piece(pinner.type, enemy, TRUE))

PinBoards ==
    { PinBoard(own, type, square, pinner) :
        own \in {WHITE, BLACK}, type \in {PAWN, KNIGHT, BISHOP, ROOK, QUEEN},
        square \in NearSquares(PinKingSquare), pinner \in Pinners }

HomeBoards ==
    { CastleBoard(own, "home", attacker, -1) : own \in {WHITE, BLACK}, attacker \in Attackers }

\* the side to move is the side whose pieces are asked about
PinInit ==
    /\ board \in PinBoards \cup HomeBoards
    /\ history = <<>>
    /\ currentTurn \in {WHITE, BLACK}
    /\ board \in PinBoards => getPiece(board, PinKingSquare).color = currentTurn
    /\ status = ACTIVE
    /\ lastResult = Result("new", TRUE, FALSE, "", NoPos, NoPos, <<>>)

\* one call of MoveValidator.getLegalMoves(position, piece) for a piece of
\* the side to move, with no last move; it changes nothing
validatorGetLegalMovesCall(position) ==
    /\ lastResult.op = "new"
    /\ getPiece(board, position).color = currentTurn
    /\ lastResult' =
           IF getLegalMovesThrows(position, getPiece(board, position), NoMove)
           THEN Result("validator.getLegalMoves", FALSE, TRUE, "", position, NoPos, <<>>)
           ELSE Result("validator.getLegalMoves", TRUE, FALSE, "", position, NoPos,
                       getLegalMoves(board, position, getPiece(board, position), NoMove))
    /\ UNCHANGED game

PinNext == \E position \in [row : Rows, col : Rows] : validatorGetLegalMovesCall(position)

PinSpec == PinInit /\ [][PinNext]_vars

\* the board after the piece on `from` has gone to `to`; a king that goes
\* two columns sideways takes the rook of that side with it
Applied(b, from, to) ==
    LET piece == getPiece(b, from)
        relocated == [b EXCEPT ![from.row][from.col] = NoPiece, ![to.row][to.col] = piece]
        rookFrom == IF to.col > from.col THEN 7 ELSE 0
        rookTo == IF to.col > from.col THEN 5 ELSE 3
    IN  IF piece.type = KING /\ Abs(to.col - from.col) = 2
        THEN [relocated EXCEPT ![from.row][rookFrom] = NoPiece,
                               ![from.row][rookTo] = b[from.row][rookFrom]]
        ELSE relocated

\* `to` lies on the line that runs through `a` and `b`
OnLine(a, b, to) ==
    (to.row - a.row) * (b.col - a.col) = (to.col - a.col) * (b.row - a.row)

\* the piece on `sq` is the only piece between its king and an enemy rook,
\* bishop or queen that would otherwise attack the king
Pinned(b, sq) ==
    LET color == getPiece(b, sq).color
    IN  /\ getPiece(b, sq).type # KING
        /\ ~KingAttacked(b, color)
        /\ KingAttacked([b EXCEPT ![sq.row][sq.col] = NoPiece], color)

\* the board of the example: white king e4, white rook d4, black rook a4
PinExample(b) ==
    /\ getPiece(b, Pos(4, 4)) = Piece(KING, WHITE, TRUE)
    /\ getPiece(b, Pos(4, 3)) = Piece(ROOK, WHITE, TRUE)
    /\ getPiece(b, Pos(4, 0)) = Piece(ROOK, BLACK, TRUE)

\* C21: every destination MoveValidator.getLegalMoves returns leaves the
\* mover's own king not attacked once the move is applied; a piece pinned
\* to its king is offered only destinations on the line through the piece
\* and its king; and on the board with white king e4, white rook d4 and
\* black rook a4 the white rook is offered at least one destination, all
\* of them on row 4.
C21_LegalMovesKeepKingSafe ==
    (lastResult.op = "validator.getLegalMoves" /\ ~lastResult.threw)
    => LET from == lastResult.from
           color == getPiece(board, from).color
           moves == lastResult.moves
       IN  /\ \A i \in DOMAIN moves : ~KingAttacked(Applied(board, from, moves[i]), color)
           /\ Pinned(board, from)
              => \A i \in DOMAIN moves :
                     \E kr \in Rows, kc \in Rows :
                         /\ getPiece(board, Pos(kr, kc)) = Piece(KING, color, TRUE)
                         /\ OnLine(from, Pos(kr, kc), moves[i])
           /\ (PinExample(board) /\ from = Pos(4, 3))
              => /\ Len(moves) >= 1
                 /\ \A i \in DOMAIN moves : moves[i].row = 4

\* the legal moves of the pinned white rook on d4 have been asked on the
\* board of the example and c4 is among them
C21_Witness ==
    /\ lastResult.op = "validator.getLegalMoves"
    /\ ~lastResult.threw
    /\ PinExample(board)
    /\ lastResult.from = Pos(4, 3)
    /\ Pinned(board, lastResult.from)
    /\ \E i \in DOMAIN lastResult.moves : lastResult.moves[i] = Pos(4, 2)

----------------------------------------------------------------------------
\* C22: every call of GameState.getLegalMoves(position) returns a list; it
\* never throws, also not for a pawn of the side to move on the a-file or
\* the h-file once a move has been played.
C22_QueryReturns ==
    lastResult.op = "getLegalMoves" => ~lastResult.threw

\* getLegalMoves returned a list for a pawn of the side to move on the
\* a-file or the h-file; no move had been played
C22_EdgePawnBeforeAnyMove ==
    /\ lastResult.op = "getLegalMoves"
    /\ ~lastResult.threw
    /\ getPiece(board, lastResult.from) = Piece(PAWN, currentTurn, FALSE)
    /\ lastResult.from.col \in {0, 7}
    /\ Len(history) = 0
    /\ Len(lastResult.moves) = 2

----------------------------------------------------------------------------
\* C23: GameState.getLegalMoves(position) returns the empty list whenever
\* the square is empty or holds a piece that is not of the side to move.
C23_NothingForOthers ==
    (/\ lastResult.op = "getLegalMoves"
     /\ \/ getPiece(board, lastResult.from) = NoPiece
        \/ getPiece(board, lastResult.from).color # currentTurn)
    => (~lastResult.threw /\ lastResult.moves = <<>>)

\* the moves of the black pawn on h7 were asked with White to move, the
\* pawn free to advance, and the empty list came back
C23_Witness ==
    /\ lastResult.op = "getLegalMoves"
    /\ lastResult.from = Pos(1, 7)
    /\ getPiece(board, Pos(1, 7)) = Piece(PAWN, BLACK, FALSE)
    /\ getPiece(board, Pos(2, 7)) = NoPiece
    /\ currentTurn = WHITE
    /\ ~lastResult.threw
    /\ lastResult.moves = <<>>

----------------------------------------------------------------------------
\* a boolean as one of the outcomes "TRUE" and "FALSE" of a call
Returned(x) == IF x THEN "TRUE" ELSE "FALSE"

\* C24: in every reachable state, for the side to move, isCheckmate and
\* isStalemate are not both true, isCheckmate returns whether the king is
\* in check and no piece of that color has a legal move, and isStalemate
\* returns whether the king is not in check and no piece of that color has
\* a legal move.
C24_MateAndStalemateAsDefined ==
    LET lastMove == getLastMove(history)
        inCheck == KingAttacked(board, currentTurn)
        noMove == ~HasLegalMove(board, currentTurn, lastMove)
        mate == isCheckmate(board, currentTurn, lastMove)
        stale == isStalemate(board, currentTurn, lastMove)
    IN  /\ ~(mate = "TRUE" /\ stale = "TRUE")
        /\ mate = Returned(inCheck /\ noMove)
        /\ stale = Returned(~inCheck /\ noMove)

\* what the code keeps of C24: the two calls never both return true, and
\* a call that returns gives the value of its definition
MateAndStalemateWhenReturned ==
    LET lastMove == getLastMove(history)
        inCheck == KingAttacked(board, currentTurn)
        noMove == ~HasLegalMove(board, currentTurn, lastMove)
        mate == isCheckmate(board, currentTurn, lastMove)
        stale == isStalemate(board, currentTurn, lastMove)
    IN  /\ ~(mate = "TRUE" /\ stale = "TRUE")
        /\ mate # "THROW" => mate = Returned(inCheck /\ noMove)
        /\ stale # "THROW" => stale = Returned(~inCheck /\ noMove)

----------------------------------------------------------------------------
\* C25: the status DRAW is never stored: in every reachable state the
\* status is one of ACTIVE, CHECK, CHECKMATE and STALEMATE.
C25_NeverDraw ==
    /\ status # DRAW
    /\ status \in {ACTIVE, CHECK, CHECKMATE, STALEMATE}

\* a makeMove has returned with the mover's opponent in check and the
\* status CHECK stored
C25_Witness ==
    /\ lastResult.op = "makeMove"
    /\ lastResult.success
    /\ KingAttacked(board, currentTurn)
    /\ status = CHECK

----------------------------------------------------------------------------
\* the squares of a board that hold a king of a color
KingSquares(b, color) ==
    { sq \in [row : Rows, col : Rows] : getPiece(b, sq) \in {Piece(KING, color, TRUE),
                                                            Piece(KING, color, FALSE)} }

\* what a square can hold: nothing, or one piece
Squares ==
    {NoPiece} \cup
    [type : {PAWN, KNIGHT, BISHOP, ROOK, QUEEN, KING}, color : {WHITE, BLACK},
     hasMoved : BOOLEAN]

\* C26: in every reachable state each square holds nothing or one piece,
\* and the board holds exactly one WHITE king and exactly one BLACK king.
C26_OneKingEach ==
    /\ \A r \in Rows, c \in Rows : board[r][c] \in Squares
    /\ Cardinality(KingSquares(board, WHITE)) = 1
    /\ Cardinality(KingSquares(board, BLACK)) = 1

\* the side that has just moved was in check before its move, and pieces
\* have been captured in the game
C26_Witness ==
    /\ lastResult.op = "makeMove"
    /\ Len(history) >= 1
    /\ lastResult.from = getLastMove(history).from
    /\ KingAttacked(history[Len(history)].boardBeforeMove, getOppositeColor(currentTurn))
    /\ getLastMove(history).capturedPiece # NoPiece
    /\ ~KingAttacked(board, getOppositeColor(currentTurn))

----------------------------------------------------------------------------
----------------------------------------------------------------------------
\* the board that follows the i-th entry of a history: the snapshot of the
\* next entry, or the live board after the last entry
BoardAfterEntry(b, h, i) == IF i = Len(h) THEN b ELSE h[i + 1].boardBeforeMove

\* the move that preceded the i-th entry
MoveBeforeEntry(h, i) == IF i = 1 THEN NoMove ELSE h[i - 1].move

\* C28: in every reachable state the history is the record of the game
\* from the start position: the first snapshot is the start position, each
\* entry's snapshot, with its hasMoved flags, is the board on which its
\* move was executed, executing the entry's move on its snapshot gives the
\* next snapshot (the live board for the last entry), and each recorded
\* Move is the one made out of its snapshot; so no later makeMove,
\* undoMove or query has changed a snapshot or a recorded Move.
C28_SnapshotsAreThePast ==
    /\ Len(history) > 0 => history[1].boardBeforeMove = InitialBoard
    /\ \A i \in 1 .. Len(history) :
           LET entry == history[i]
               piece == getPiece(entry.boardBeforeMove, entry.move.from)
           IN  /\ piece # NoPiece
               /\ executeMove(entry.boardBeforeMove, entry.move.from, entry.move.to,
                              piece, MoveBeforeEntry(history, i))
                      = BoardAfterEntry(board, history, i)
               /\ entry.move = moveRecord(entry.boardBeforeMove, entry.move.from,
                                          entry.move.to, piece, MoveBeforeEntry(history, i))

\* after further moves, a query and an undoMove, four entries are kept and
\* the first still holds the start position
C28_Witness ==
    /\ lastResult.op = "undoMove"
    /\ lastResult.success
    /\ Len(history) = 4
    /\ history[1].boardBeforeMove = InitialBoard
    /\ history[4].boardBeforeMove # board
    /\ \E i \in 1 .. 4 : history[i].move.capturedPiece # NoPiece

----------------------------------------------------------------------------
(* Board.movePiece as an operation on a board.  A fourth specification    *)
(* draws a board from a small family and calls movePiece once, for any    *)
(* two squares of the board.                                              *)

MoveBoards ==
    { InitialBoard,
      CastleBoard(WHITE, "home", NoAttacker, -1),
      PinBoard(WHITE, ROOK, Pos(4, 3), [type |-> ROOK, square |-> Pos(4, 0)]) }

BoardInit ==
    /\ board \in MoveBoards
    /\ history = <<>>
    /\ currentTurn = WHITE
    /\ status = ACTIVE
    /\ lastResult = Result("new", TRUE, FALSE, "", NoPos, NoPos, <<>>)

\* movePiece throws before it changes anything when the source is empty
\* (both positions are in range, being Positions)
movePieceThrows(b, from, to) ==
    \/ ~isValidPosition(from.row, from.col)
    \/ ~isValidPosition(to.row, to.col)
    \/ getPiece(b, from) = NoPiece

movePieceCall(from, to) ==
    /\ lastResult.op = "new"
    /\ board' = IF movePieceThrows(board, from, to) THEN board ELSE movePiece(board, from, to)
    /\ lastResult' = Result("movePiece", ~movePieceThrows(board, from, to),
                            movePieceThrows(board, from, to), "", from, to, <<>>)
    /\ UNCHANGED << history, currentTurn, status >>

BoardNext ==
    \E from \in [row : Rows, col : Rows], to \in [row : Rows, col : Rows] :
        movePieceCall(from, to)

BoardSpec == BoardInit /\ [][BoardNext]_vars

MovePieceApart ==
    [][ lastResult'.op = "movePiece"
        => LET from == lastResult'.from
               to == lastResult'.to
               piece == getPiece(board, from)
           IN  IF piece = NoPiece
               THEN lastResult'.threw /\ board' = board
               ELSE /\ ~lastResult'.threw
                    /\ getPiece(board', from) = NoPiece
                    /\ from # to => getPiece(board', to) = Piece(piece.type, piece.color, TRUE)
                    /\ ChangedSquares(board, board') \subseteq {from, to} ]_vars

----------------------------------------------------------------------------
\* the squares of the board
AllPositions == [row : Rows, col : Rows]

\* d is among the destinations of a list
Listed(moves, d) == \E i \in DOMAIN moves : moves[i] = d

\* no destination is listed twice
NoRepeat(moves) == \A i, j \in DOMAIN moves : moves[i] = moves[j] => i = j

\* C30: in every reachable state whose status is not CHECKMATE or
\* STALEMATE, for every square p holding a piece of the side to move,
\* getLegalMoves(p) returns a list without repeats, and a square d is in
\* that list if and only if makeMove(p, d) succeeds.
C30_ListedIffMoveSucceeds ==
    status \notin {CHECKMATE, STALEMATE}
    => \A p \in AllPositions :
           getPiece(board, p).color = currentTurn
           => /\ ~getLegalMovesQueryThrows(board, history, currentTurn, p)
              /\ NoRepeat(getLegalMovesQuery(board, history, currentTurn, p))
              /\ \A d \in AllPositions :
                     Listed(getLegalMovesQuery(board, history, currentTurn, p), d)
                     <=> makeMoveOutcome(board, history, currentTurn, status, p, d).result.success

\* what the code keeps of C30: when getLegalMoves(p) returns, its list has
\* no repeats and holds exactly the squares d for which makeMove(p, d)
\* passes its checks and executes the move
ListedIffMoveExecuted ==
    status \notin {CHECKMATE, STALEMATE}
    => \A p \in AllPositions :
           (/\ getPiece(board, p).color = currentTurn
            /\ ~getLegalMovesQueryThrows(board, history, currentTurn, p))
           => /\ NoRepeat(getLegalMovesQuery(board, history, currentTurn, p))
              /\ \A d \in AllPositions :
                     Listed(getLegalMovesQuery(board, history, currentTurn, p), d)
                     <=> makeMoveError(board, history, currentTurn, status, p, d) = ""

-----------------------------------------------------------------------------
(* Undo and move availability.                                             *)

\* what GameState.getLegalMoves(position) gives on a game: the list it
\* returns, or the fact that it throws
QueryAnswer(b, h, turn, position) ==
    IF getLegalMovesQueryThrows(b, h, turn, position)
    THEN [threw |-> TRUE, moves |-> <<>>]
    ELSE [threw |-> FALSE, moves |-> getLegalMovesQuery(b, h, turn, position)]

\* the destinations of a list
Destinations(moves) == { moves[i] : i \in DOMAIN moves }

\* the squares that hold a piece of a color
Occupied(b, color) ==
    { p \in AllPositions : getPiece(b, p) # NoPiece /\ getPiece(b, p).color = color }

\* getLegalMoves answers alike, square by square, on the game of an outcome
\* and on the game (b, h, turn)
SameAvailability(o, b, h, turn) ==
    \A p \in Occupied(b, turn) \cup Occupied(o.board, o.currentTurn) :
        LET before == QueryAnswer(b, h, turn, p)
            after  == QueryAnswer(o.board, o.history, o.currentTurn, p)
        IN  /\ after.threw = before.threw
            /\ Destinations(after.moves) = Destinations(before.moves)

\* C31: from every reachable state s, for every move that makeMove accepts
\* in s, makeMove followed by undoMove leaves a game in which getLegalMoves
\* answers for every square with the same set of destinations as in s; a
\* castling destination and an en-passant destination listed in s are
\* listed again.
C31_UndoRestoresAvailability ==
    \A in \in Offered(history) :
        LET o == makeMoveOutcome(board, history, currentTurn, status, in[1], in[2])
        IN  Len(o.history) = Len(history) + 1
            => SameAvailability(UndoneAfter(o), board, history, currentTurn)

\* a state that an undoMove has just produced, with a king that may castle
\* or a pawn that may capture en passant
C31_Witness ==
    /\ lastResult.op = "undoMove"
    /\ Len(history) > 0
    /\ \E p \in Occupied(board, currentTurn) :
           LET piece == getPiece(board, p)
               moves == QueryAnswer(board, history, currentTurn, p).moves
           IN  \E i \in DOMAIN moves :
                   \/ piece.type = KING /\ Abs(moves[i].col - p.col) = 2
                   \/ /\ piece.type = PAWN
                      /\ moves[i].col # p.col
                      /\ isEmpty(board, moves[i])

-----------------------------------------------------------------------------
(* Turn parity.                                                            *)

\* C32: in every reachable state the side to move is WHITE exactly when
\* the number of moves in the history is even, and the last move of the
\* history, when there is one, was made by the color that is not to move.
C32_TurnParity ==
    /\ currentTurn = WHITE <=> getMoveCount(history) % 2 = 0
    /\ getMoveCount(history) > 0
       => getLastMove(history).piece.color = getOppositeColor(currentTurn)

\* an undoMove has handed the turn back to BLACK with moves still recorded
C32_Witness ==
    /\ lastResult.op = "undoMove"
    /\ currentTurn = BLACK
    /\ getMoveCount(history) >= 3

-----------------------------------------------------------------------------
(* Captured pieces.                                                        *)

\* the number of pieces on a board
PieceCount(b) == Cardinality({ p \in AllPositions : getPiece(b, p) # NoPiece })

\* the number of moves of a history that carry a capturedPiece: what
\* recalculateCapturedPieces of main.ts collects
RecordedCaptures(h) ==
    Cardinality({ i \in DOMAIN h : h[i].move.capturedPiece # NoPiece })

\* the number of en-passant moves of a history
EnPassantMoves(h) ==
    Cardinality({ i \in DOMAIN h : h[i].move.moveType = "EN_PASSANT" })

\* C33: every piece removed from the board by a move is recorded as that
\* move's capturedPiece, en-passant captures included: in every reachable
\* state the number of pieces on the board plus the number of history
\* moves with a capturedPiece is 32.
C33_CapturesAccountForPieces ==
    PieceCount(board) + RecordedCaptures(history) = 32

\* what the code keeps of C33: the pawn taken en passant is the only piece
\* that leaves the board without being recorded as a capturedPiece
CapturesAndEnPassantAccountForPieces ==
    /\ PieceCount(board) + RecordedCaptures(history) + EnPassantMoves(history) = 32
    /\ \A i \in DOMAIN history :
           history[i].move.moveType = "EN_PASSANT"
           => history[i].move.capturedPiece = NoPiece

-----------------------------------------------------------------------------
(* Move types.                                                             *)

MoveTypes ==
    {"NORMAL", "CAPTURE", "CASTLE_KINGSIDE", "CASTLE_QUEENSIDE", "EN_PASSANT", "PROMOTION"}

\* the farthest rank of a color: row 0 for WHITE, row 7 for BLACK
FarthestRow(color) == IF color = WHITE THEN 0 ELSE BOARD_SIZE - 1

\* the move type the order of the rules gives to a move of `piece` from
\* `from` to `to` on the board b
TypeByOrder(b, from, to, piece) ==
    CASE piece.type = KING /\ to.col - from.col = 2 -> "CASTLE_KINGSIDE"
      [] piece.type = KING /\ from.col - to.col = 2 -> "CASTLE_QUEENSIDE"
      [] OTHER ->
           IF piece.type = PAWN /\ to.col # from.col /\ isEmpty(b, to) THEN "EN_PASSANT"
           ELSE IF piece.type = PAWN /\ to.row = FarthestRow(piece.color) THEN "PROMOTION"
           ELSE IF ~isEmpty(b, to) THEN "CAPTURE"
           ELSE "NORMAL"

\* C34: every makeMove that is carried out records exactly one move type:
\* CASTLE_KINGSIDE or CASTLE_QUEENSIDE when a king shifts two columns,
\* otherwise EN_PASSANT when a pawn changes column into an empty square,
\* otherwise PROMOTION when a pawn reaches its farthest rank, otherwise
\* CAPTURE when the destination was occupied, otherwise NORMAL.
C34_MoveTypeByOrder ==
    [][ (lastResult'.op = "makeMove" /\ Len(history') = Len(history) + 1)
        => LET move == getLastMove(history')
           IN  /\ move.moveType \in MoveTypes
               /\ move.moveType = TypeByOrder(board, lastResult'.from, lastResult'.to,
                                              getPiece(board, lastResult'.from)) ]_vars

\* a pawn has just taken a piece on its farthest rank, and the move is
\* recorded as a promotion
C34_Witness ==
    /\ lastResult.op = "makeMove"
    /\ lastResult.success
    /\ getLastMove(history).moveType = "PROMOTION"
    /\ getLastMove(history).capturedPiece # NoPiece

-----------------------------------------------------------------------------
(* The move generator and the check detection as functions.  A fourth      *)
(* specification draws a board from a small family and calls               *)
(* MoveGenerator.generateMoves once, for any square and any piece, or      *)
(* MoveValidator.isKingInCheck once, on the board itself or on a copy on   *)
(* which one pseudo-legal move has been tried, as isLegalMove does.  The   *)
(* boards hold pawns on rows 1 to 6 only: makeMove replaces a pawn that    *)
(* reaches its farthest row, so no game holds a pawn on row 0 or row 7.    *)

\* the board after a sequence of relocations
RECURSIVE Relocated(_, _, _)
Relocated(b, moves, i) ==
    IF i > Len(moves) THEN b
    ELSE Relocated(movePiece(b, moves[i][1], moves[i][2]), moves, i + 1)

\* the board after a sequence of placements <<file, rank, type, color>>
RECURSIVE Placed(_, _, _)
Placed(b, pieces, i) ==
    IF i > Len(pieces) THEN b
    ELSE Placed(setPiece(b, fromAlgebraic(<<pieces[i][1], pieces[i][2]>>),
                         Piece(pieces[i][3], pieces[i][4], TRUE)),
                pieces, i + 1)

\* 1. e4 d5 2. Nf3: pawns that may capture each other, a home square left empty
OpenGameBoard ==
    Relocated(InitialBoard,
              << Mv("e","2","e","4"), Mv("d","7","d","5"), Mv("g","1","f","3") >>, 1)

\* the position after the four-move mate: the white king is in check
FoolsMateBoard ==
    Relocated(InitialBoard,
              << Mv("f","2","f","3"), Mv("e","7","e","5"), Mv("g","2","g","4"),
                 Mv("d","8","h","4") >>, 1)

\* an open position: long lines that end on own and on opposing pieces,
\* pawns blocked in front, a pawn one step from its farthest row
MiddleGameBoard ==
    Placed(EmptyBoard,
           << <<"g","1",KING,WHITE>>, <<"g","8",KING,BLACK>>,
              <<"d","4",QUEEN,WHITE>>, <<"d","7",ROOK,BLACK>>,
              <<"a","4",ROOK,WHITE>>, <<"h","8",BISHOP,BLACK>>,
              <<"b","2",BISHOP,WHITE>>, <<"f","6",KNIGHT,BLACK>>,
              <<"e","5",KNIGHT,WHITE>>, <<"c","3",PAWN,WHITE>>,
              <<"c","4",PAWN,BLACK>>, <<"h","2",PAWN,WHITE>>,
              <<"h","3",PAWN,BLACK>>, <<"a","7",PAWN,WHITE>>,
              <<"b","8",KNIGHT,BLACK>>, <<"f","2",PAWN,BLACK>>,
              <<"g","7",PAWN,BLACK>>, <<"g","5",PAWN,WHITE>> >>, 1)

\* a board without a black king
LoneKingBoard ==
    Placed(EmptyBoard,
           << <<"e","1",KING,WHITE>>, <<"e","8",ROOK,BLACK>>,
              <<"d","1",QUEEN,WHITE>>, <<"d","8",KNIGHT,BLACK>> >>, 1)

GeneratorBoards ==
    { InitialBoard, OpenGameBoard, FoolsMateBoard, MiddleGameBoard, LoneKingBoard,
      CastleBoard(WHITE, "home", [type |-> ROOK, distance |-> 3, col |-> 0], -1),
      PinBoard(WHITE, ROOK, Pos(4, 3), [type |-> ROOK, square |-> Pos(4, 0)]) }

\* the result of one call on a generator or on isKingInCheck: the operation,
\* whether it threw, its arguments (`given` is the board handed in) and
\* what it returned
GeneratorResult(op, threw, position, piece, given, value, moves) ==
    [op |-> op, threw |-> threw, from |-> position, piece |-> piece,
     given |-> given, success |-> value, moves |-> moves]

GeneratorInit ==
    /\ board \in GeneratorBoards
    /\ history = <<>>
    /\ currentTurn = WHITE
    /\ status = ACTIVE
    /\ lastResult = GeneratorResult("new", FALSE, NoPos, NoPiece, EmptyBoard, TRUE, <<>>)

\* generateMoves throws where generatePawnMoves does
generateMovesThrows(position, piece) ==
    piece.type = PAWN /\ generatePawnMovesThrows(position, piece.color)

\* the pieces handed to generateMoves, each asked for every square
AskedPieces == [type : {PAWN, KNIGHT, BISHOP, ROOK, QUEEN, KING},
                color : {WHITE, BLACK}, hasMoved : {TRUE}]

\* one call of generateMoves(position, piece) on the board drawn
generateMovesCall(position, piece) ==
    /\ lastResult.op = "new"
    /\ lastResult' =
          IF generateMovesThrows(position, piece)
          THEN GeneratorResult("generateMoves", TRUE, position, piece, board, FALSE, <<>>)
          ELSE GeneratorResult("generateMoves", FALSE, position, piece, board, TRUE,
                               generateMoves(board, position, piece))
    /\ UNCHANGED game

\* isKingInCheck throws when generateMoves does for an opposing piece that
\* is looked at before any piece that attacks the king
isKingInCheckThrows(b, color) ==
    LET kingPos == findPiece(b, KING, color)
        opponentPieces == getPiecesOfColor(b, getOppositeColor(color))
    IN  /\ kingPos # NoPos
        /\ \E i \in 1 .. Len(opponentPieces) :
               /\ generateMovesThrows(opponentPieces[i], getPiece(b, opponentPieces[i]))
               /\ \A j \in 1 .. i - 1 :
                      ~canAttack(b, opponentPieces[j], kingPos, getPiece(b, opponentPieces[j]))

\* the copies of the board on which one pseudo-legal move of a piece of a
\* color has been tried (lines 42-44 of isLegalMove)
TriedBoards(b, color) ==
    UNION { { movePiece(b, from, to) :
                to \in Destinations(generateMoves(b, from, getPiece(b, from))) } :
            from \in Occupied(b, color) }

\* one call of isKingInCheck(given, color), on the board itself or on a copy
\* with a move of that color tried
isKingInCheckCall(color) ==
    /\ lastResult.op = "new"
    /\ \E given \in {board} \cup TriedBoards(board, color) :
           lastResult' =
              IF isKingInCheckThrows(given, color)
              THEN GeneratorResult("isKingInCheck", TRUE, NoPos, Piece(KING, color, TRUE),
                                   given, FALSE, <<>>)
              ELSE GeneratorResult("isKingInCheck", FALSE, NoPos, Piece(KING, color, TRUE),
                                   given, isKingInCheck(given, color), <<>>)
    /\ UNCHANGED game

GeneratorNext ==
    \/ \E piece \in AskedPieces : \E position \in AllPositions :
           generateMovesCall(position, piece)
    \/ \E color \in {WHITE, BLACK} : isKingInCheckCall(color)

GeneratorSpec == GeneratorInit /\ [][GeneratorNext]_vars

\* C35: isKingInCheck(given, color) returns true exactly when some piece of
\* the opposite color on the given board has the square of the king of
\* that color among the destinations generateMoves computes for it on that
\* board, which is when that king is attacked by the rules of movement; it
\* returns false when the given board holds no king of that color; the
\* live board plays no part when a copy is given.
C35_CheckIsAttackOnGivenBoard ==
    lastResult.op = "isKingInCheck"
    => LET given == lastResult.given
           color == lastResult.piece.color
           kingPos == findPiece(given, KING, color)
       IN  /\ ~lastResult.threw
           /\ lastResult.success
              <=> /\ kingPos # NoPos
                  /\ \E p \in Occupied(given, getOppositeColor(color)) :
                         Listed(generateMoves(given, p, getPiece(given, p)), kingPos)
           /\ kingPos = NoPos => ~lastResult.success
           /\ lastResult.success <=> KingAttacked(given, color)

\* isKingInCheck has answered true on a copy on which a pinned piece has
\* left its line, while the king is not attacked on the live board
C35_Witness ==
    /\ lastResult.op = "isKingInCheck"
    /\ lastResult.given # board
    /\ lastResult.success
    /\ ~KingAttacked(board, lastResult.piece.color)

\* isKingInCheck has answered false for a color without a king
C35_WitnessNoKing ==
    /\ lastResult.op = "isKingInCheck"
    /\ findPiece(lastResult.given, KING, lastResult.piece.color) = NoPos
    /\ ~lastResult.success

\* the squares of the board
OnBoard(p) == p.row \in Rows /\ p.col \in Rows

\* the pawn rule: one step forward if empty (WHITE toward row 0, BLACK
\* toward row 7), two steps from the starting row (6 for WHITE, 1 for
\* BLACK) if both squares are empty, and a forward diagonal if it holds an
\* opposing piece
PawnRule(b, position, color) ==
    LET forward == IF color = WHITE THEN -1 ELSE 1
        home == IF color = WHITE THEN 6 ELSE 1
        one == Pos(position.row + forward, position.col)
        two == Pos(position.row + 2 * forward, position.col)
    IN  { d \in AllPositions :
            \/ d = one /\ b[d.row][d.col] = NoPiece
            \/ /\ d = two
               /\ position.row = home
               /\ b[one.row][one.col] = NoPiece
               /\ b[d.row][d.col] = NoPiece
            \/ /\ d.row = position.row + forward
               /\ Abs(d.col - position.col) = 1
               /\ b[d.row][d.col] # NoPiece
               /\ b[d.row][d.col].color # color }

PawnMovesOffFarthestRow ==
    (lastResult.op = "generateMoves" /\ lastResult.piece.type = PAWN)
    => LET position == lastResult.from
           color == lastResult.piece.color
       IN  /\ lastResult.threw <=> position.row = FarthestRow(color)
           /\ ~lastResult.threw
              => /\ NoRepeat(lastResult.moves)
                 /\ Destinations(lastResult.moves) = PawnRule(board, position, color)

\* the sliding rule along straight or diagonal lines: a square of such a
\* line through the origin with nothing between it and the origin, empty
\* or holding an opposing piece
SlideRule(b, position, color, straight, diagonal) ==
    { d \in AllPositions :
        LET dr == d.row - position.row
            dc == d.col - position.col
        IN  /\ \/ straight /\ ((dr = 0) # (dc = 0))
               \/ diagonal /\ Abs(dr) = Abs(dc) /\ dr # 0
            /\ PathClear(b, position, d)
            /\ (b[d.row][d.col] = NoPiece \/ b[d.row][d.col].color # color) }

\* C37: for a rook, a bishop and a queen, generateMoves returns along each
\* of the piece's directions every empty square up to the first occupied
\* square, that square if and only if it holds an opposing piece, and
\* nothing beyond it; the queen's destinations are those of a rook together
\* with those of a bishop of the same color on the same square.
C37_SlidingMoves ==
    (lastResult.op = "generateMoves" /\ lastResult.piece.type \in {ROOK, BISHOP, QUEEN})
    => LET position == lastResult.from
           piece == lastResult.piece
       IN  /\ ~lastResult.threw
           /\ NoRepeat(lastResult.moves)
           /\ Destinations(lastResult.moves)
              = SlideRule(board, position, piece.color,
                          piece.type \in {ROOK, QUEEN}, piece.type \in {BISHOP, QUEEN})
           /\ piece.type = QUEEN
              => Destinations(lastResult.moves)
                 = Destinations(generateMoves(board, position, Piece(ROOK, piece.color, TRUE)))
                   \cup Destinations(generateMoves(board, position, Piece(BISHOP, piece.color, TRUE)))

\* generateMoves has answered for a queen on d4 in the open position: one
\* line ends with a capture (the rook on d7), another one before an own
\* piece (the pawn on c3), and nothing behind either is listed
C37_Witness ==
    /\ lastResult.op = "generateMoves"
    /\ lastResult.piece = Piece(QUEEN, WHITE, TRUE)
    /\ board = MiddleGameBoard
    /\ lastResult.from = fromAlgebraic(<<"d", "4">>)
    /\ Listed(lastResult.moves, fromAlgebraic(<<"d", "7">>))
    /\ ~Listed(lastResult.moves, fromAlgebraic(<<"d", "8">>))
    /\ ~Listed(lastResult.moves, fromAlgebraic(<<"c", "3">>))
    /\ ~Listed(lastResult.moves, fromAlgebraic(<<"b", "2">>))

\* the squares a knight or a king reaches by its fixed offsets
StepRule(b, position, piece) ==
    { d \in AllPositions :
        LET dr == Abs(d.row - position.row)
            dc == Abs(d.col - position.col)
        IN  /\ IF piece.type = KNIGHT THEN {dr, dc} = {1, 2}
               ELSE dr <= 1 /\ dc <= 1 /\ d # position
            /\ (b[d.row][d.col] = NoPiece \/ b[d.row][d.col].color # piece.color) }

\* C38: on every board, for every square and every piece type, each
\* destination generateMoves returns is on the board, differs from the
\* origin and holds no piece of the mover's color; for a knight and for a
\* king the destinations are exactly the squares of the board at the eight
\* fixed offsets that are empty or hold an opposing piece, whatever stands
\* in between, and a king is never offered a square two columns away.
C38_DestinationsAreSound ==
    lastResult.op = "generateMoves"
    => LET position == lastResult.from
           piece == lastResult.piece
           moves == lastResult.moves
       IN  /\ \A i \in DOMAIN moves :
                  /\ OnBoard(moves[i])
                  /\ moves[i] # position
                  /\ getPiece(board, moves[i]).color # piece.color
           /\ piece.type \in {KNIGHT, KING}
              => /\ ~lastResult.threw
                 /\ NoRepeat(moves)
                 /\ Destinations(moves) = StepRule(board, position, piece)
           /\ piece.type = KING
              => \A i \in DOMAIN moves : Abs(moves[i].col - position.col) < 2

\* generateMoves has answered for the white king on its home square while
\* White may castle on the king's side, and g1 is not among the answers
C38_Witness ==
    /\ lastResult.op = "generateMoves"
    /\ lastResult.piece = Piece(KING, WHITE, TRUE)
    /\ lastResult.from = castlingFrom(WHITE)
    /\ canCastle(board, WHITE, "kingside")
    /\ Len(lastResult.moves) > 0
    /\ ~Listed(lastResult.moves, castlingTo(WHITE, "kingside"))

====
